---- MODULE Spec2Model ----
(***************************************************************************)
(* Tamer: events, rendezvous, closure activation and the driver's turn.    *)
(*                                                                         *)
(* Pointers are modelled as identifiers: 0 is the null pointer, events are *)
(* 1..MaxLinked, rendezvous and closures are 1 and 2.  A                   *)
(* pointer to a pointer (simple_event::_r_pprev, ready_ptail_,             *)
(* unblocked_ptail) is a location <<kind, id>> naming the pointer cell it  *)
(* addresses.                                                              *)
(***************************************************************************)
EXTENDS Integers, Sequences, FiniteSets, TLC

MaxEvents == 2

\* The events of a program that only arms, triggers and cancels them.
MaxLinked == 3
MaxTime == 1
MaxPipe == 2

\* The events the driver holds at a time, over all it is asked to watch.
MaxHeld == 2
MaxFacades == 2
MaxClears == 1
MaxWrappers == 3
MaxImps == 2
MaxWeak == 1
MaxOps == 4
MaxSize == 2

\* A program that works with timers only: how many it schedules at a time,
\* and the latest expiry and clock value.
MaxTimers == 4
\* The highest descriptor the program of SpecFdTable watches
MaxFd == 2
MaxExpiry == 2

\* The width given to the type unsigned: the checker's integers are 32 bits
\* wide with a sign, so the 32 bits of the source do not fit.
UnsignedBits == 16

\* The width given to the type int where the code computes descriptor table
\* sizes: 8 bits here stand for the 32 of the source, so that 16 doubled
\* three times is the largest capacity an int holds (2^30 in the source).
IntBits == 8

\* #define NSIGNALS 32
NSIGNALS == 32

\* Descriptors user code registers, the descriptor pipe() returns for the
\* read end of the signal pipe, the signals user code arms.
Fds == {0}
PipeFds == {1}
Signals == {1}

Events == 1..MaxLinked
Rendezvous == {1, 2}
\* Every rendezvous belongs to one task, whose closure has the same number.
Closures == Rendezvous
Values == {1, 2}

\* enum rendezvous_type
rgather == 0
rexplicit == 1
rfunctional == 2
rhidden == 3
EBADF == 9
Wrappers == 1..MaxWrappers
Imps == 1..MaxImps
Ops == 1..MaxOps

\* abstract_rendezvous::unblocked_sentinel(): "blocked, not in the queue"
unblocked_sentinel == 0 - 1

VARIABLES
    ev,               \* simple_event objects: _r, _rid, _r_next, _r_pprev, at_trigger_, at_trigger_f_, _t1,
                      \* _refcount; deleted once freed; facades counts the program's live handles
    nev,              \* number of events constructed so far
    rv,               \* rendezvous objects: rtype_, waiting_, _blocked_closure, unblocked_next_, ready_, ready_ptail_;
                      \* destroyed once its destructor has run; clears counts the calls of clear()
    unblocked,        \* abstract_rendezvous::unblocked (head of the FIFO)
    unblocked_ptail,  \* abstract_rendezvous::unblocked_ptail
    closure,          \* tamer_closure objects: tamer_block_position_, tamer_blocked_line_ (debug
                      \* closures), where the task is (st), and the position its last twait
                      \* passed to block (asked)
    store,            \* caller storage the events' slot pointers refer to
    fault,            \* "none", or "assert" once an assert() of the code has failed
    pc,               \* where the driver is: "idle" outside a turn, else the phase of once()
    hookfired,        \* how often the function hook registered for each event has run
    fdst,             \* fd wrappers (p: the wrapper's _p, 0 null, -1 while the wrapper does not
                      \* exist) and fdimp objects (fd, _refcount, _weak_refcount; deleted once
                      \* freed; closes counts the close() system calls on its descriptor;
                      \* explicit once fd::close() has closed it), the read and write calls
                      \* (op) and the order in which they were issued and completed;
                      \* history of at_close: atc_imp, the fdimp each notifier was registered
                      \* with (0: the wrapper was invalid, -1: not registered), atc_calls, how
                      \* often the notifier has been triggered on behalf of its descriptor
    hooklog,          \* history: reg, per event the function hooks attached to it while it was
                      \* armed, in the order of the calls; log, the function hooks in the order they ran
    ready_order,      \* history: per explicit rendezvous, the identifiers of its completed
                      \* events not yet returned by join, in the order the events completed
    unblock_order,    \* history: the rendezvous that became ready with a task parked and
                      \* have not been run since, in the order they became ready
    drv,              \* the driver: _t, _nt, _tfree, now, _asap, _fd, _fdcap, _nfds, _readfds, _writefds
    sig,              \* signal statics: sig_pipe, sig_any_active, sig_active, sig_handlers
    os,               \* the operating system: clock, sigaction handlers and flags, blocked signals,
                      \* bytes in the pipe, and which signals' default action has been taken
    turn,             \* locals of once(): to (wait budget), rfds, wfds, nfds; errno as select left it;
                      \* history: drain0, the unblocked FIFO as the final rendezvous loop found it;
                      \* discarded, the timers the head cleanup removed, and expired, the timers
                      \* the timer phase removed, in order, with armed telling whether the
                      \* timer's event was armed when the timer was removed
    fired             \* history: what the current turn has triggered or resumed so far, by kind

vars == << ev, nev, rv, unblocked, unblocked_ptail, closure, store, fault, pc,
           hookfired, hooklog, fdst, ready_order, unblock_order, drv, sig, os, turn, fired >>

\* The heap the operations below act on.
St ==
    [ ev |-> ev, rv |-> rv, unblocked |-> unblocked, unblocked_ptail |-> unblocked_ptail,
      closure |-> closure, store |-> store, fault |-> fault,
      hookfired |-> hookfired, hooklog |-> hooklog, fdst |-> fdst,
      ready_order |-> ready_order,
      unblock_order |-> unblock_order, drv |-> drv, sig |-> sig, os |-> os, turn |-> turn,
      fired |-> fired ]

Commit(s) ==
    /\ ev' = s.ev
    /\ rv' = s.rv
    /\ unblocked' = s.unblocked
    /\ unblocked_ptail' = s.unblocked_ptail
    /\ closure' = s.closure
    /\ store' = s.store
    /\ fault' = s.fault
    /\ hookfired' = s.hookfired
    /\ hooklog' = s.hooklog
    /\ fdst' = s.fdst
    /\ ready_order' = s.ready_order
    /\ unblock_order' = s.unblock_order
    /\ drv' = s.drv
    /\ sig' = s.sig
    /\ os' = s.os
    /\ turn' = s.turn
    /\ fired' = s.fired

\* Locations of pointer cells.
WaitingLoc(r) == << "waiting", r >>      \* &r->waiting_
ReadyLoc(r) == << "ready", r >>          \* &r->ready_
NextLoc(e) == << "next", e >>            \* &e->_r_next
UnblockedLoc == << "unblocked", 0 >>     \* &abstract_rendezvous::unblocked
UnblockedNextLoc(r) == << "unext", r >>  \* &r->unblocked_next_
NoLoc == << "none", 0 >>

\* *loc = val
StoreAt(s, loc, val) ==
    CASE loc[1] = "waiting" -> [s EXCEPT !.rv[loc[2]].waiting_ = val]
      [] loc[1] = "ready" -> [s EXCEPT !.rv[loc[2]].ready_ = val]
      [] loc[1] = "next" -> [s EXCEPT !.ev[loc[2]]._r_next = val]
      [] loc[1] = "unblocked" -> [s EXCEPT !.unblocked = val]
      [] loc[1] = "unext" -> [s EXCEPT !.rv[loc[2]].unblocked_next_ = val]
      [] OTHER -> s

(***************************************************************************)
(* abstract_rendezvous                                                     *)
(***************************************************************************)

\* Faulty variant: links the rendezvous without looking at unblocked_next_.
unblock_unchecked(s, r) ==
    IF s.rv[r]._blocked_closure # 0
    THEN LET s1 == StoreAt(s, s.unblocked_ptail, r)
         IN [s1 EXCEPT !.rv[r].unblocked_next_ = 0,
                       !.unblocked_ptail = UnblockedNextLoc(r)]
    ELSE s

\* Faulty variant: forgets to link the rendezvous.
unblock_never(s, r) == s

\* Faulty variant: re-enters the parked task at once instead of queueing its rendezvous.
unblock_inline(s, r) ==
    LET c == s.rv[r]._blocked_closure
    IN IF c # 0
       THEN [s EXCEPT !.rv[r]._blocked_closure = 0, !.closure[c].st = "running"]
       ELSE s

\* Faulty variant: pushes the rendezvous at the head of the queue.
unblock_at_head(s, r) ==
    IF s.rv[r]._blocked_closure # 0 /\ s.rv[r].unblocked_next_ = unblocked_sentinel
    THEN [s EXCEPT !.rv[r].unblocked_next_ = s.unblocked,
                   !.unblocked = r,
                   !.unblocked_ptail = IF s.unblocked = 0 THEN UnblockedNextLoc(r) ELSE @]
    ELSE s

\* abstract_rendezvous::unblock()
unblock(s, r) ==
    IF s.rv[r]._blocked_closure # 0 /\ s.rv[r].unblocked_next_ = unblocked_sentinel
    THEN LET s1 == StoreAt(s, s.unblocked_ptail, r)          \* *unblocked_ptail = this
         IN [s1 EXCEPT !.rv[r].unblocked_next_ = 0,
                       !.unblocked_ptail = UnblockedNextLoc(r)]
    ELSE s

\* Faulty variant: parks the task without storing the position.
block_keeps_position(s, r, c, position) ==
    [s EXCEPT !.rv[r]._blocked_closure = c,
              !.rv[r].unblocked_next_ = unblocked_sentinel]

\* abstract_rendezvous::block(tamer_closure &c, unsigned position, ...)
block(s, r, c, position) ==
    LET s0 == IF s.rv[r]._blocked_closure # 0        \* assert(!_blocked_closure && &c)
              THEN [s EXCEPT !.fault = "assert"] ELSE s
    IN [s0 EXCEPT !.rv[r]._blocked_closure = c,
                  !.rv[r].unblocked_next_ = unblocked_sentinel,
                  !.closure[c].tamer_block_position_ = position]

\* The value an int holds after an operation whose result is n: two's
\* complement wrap-around, the usual outcome of an overflow.
AsInt(n) == ((n + 2 ^ (IntBits - 1)) % (2 ^ IntBits)) - 2 ^ (IntBits - 1)

\* A value converted to unsigned.
Unsigned(n) == n % (2 ^ UnsignedBits)

\* abstract_rendezvous::block(tamer_debug_closure &c, unsigned position,
\* file, line)
block_debug(s, r, c, position, line) ==
    [block(s, r, c, Unsigned(0 - position)) EXCEPT !.closure[c].tamer_blocked_line_ = line]

\* Faulty variant: invokes the activator with the closure still recorded as parked.
run_keep_closure(s, r) ==
    LET c == s.rv[r]._blocked_closure
    IN [s EXCEPT !.closure[c].st = "running"]

\* abstract_rendezvous::run(): the activator is entered; the task then runs
\* (closure st "running") until it blocks again or returns.
run(s, r) ==
    LET c == s.rv[r]._blocked_closure
    IN [s EXCEPT !.rv[r]._blocked_closure = 0, !.closure[c].st = "running"]

\* Faulty variant: takes the most recently queued rendezvous.
pop_unblocked_last(s) ==
    LET RECURSIVE Last(_)
        Last(r) == IF s.rv[r].unblocked_next_ = 0 THEN r ELSE Last(s.rv[r].unblocked_next_)
        RECURSIVE Before(_, _)
        Before(r, l) == IF s.rv[r].unblocked_next_ = l THEN r ELSE Before(s.rv[r].unblocked_next_, l)
        l == Last(s.unblocked)
    IN IF s.unblocked = 0 THEN [s |-> s, r |-> 0]
       ELSE IF s.unblocked = l
            THEN [s |-> [s EXCEPT !.unblocked = 0, !.unblocked_ptail = UnblockedLoc], r |-> l]
            ELSE LET b == Before(s.unblocked, l)
                 IN [s |-> [s EXCEPT !.rv[b].unblocked_next_ = 0,
                                     !.unblocked_ptail = UnblockedNextLoc(b)],
                     r |-> l]

\* abstract_rendezvous::pop_unblocked(): the state after the call (s) and
\* the rendezvous returned (r).
pop_unblocked(s) ==
    LET r == s.unblocked
    IN IF r # 0
       THEN LET n == s.rv[r].unblocked_next_
            IN [s |-> [s EXCEPT !.unblocked = n,
                                !.unblocked_ptail = IF n = 0 THEN UnblockedLoc ELSE @],
                r |-> r]
       ELSE [s |-> s, r |-> 0]

(***************************************************************************)
(* simple_event                                                            *)
(***************************************************************************)

\* Faulty variant: the old head of the list is not told its new predecessor.
initialize_no_backlink(s, e, r, rid) ==
    LET w == s.rv[r].waiting_
    IN [s EXCEPT !.ev[e]._r = r,
                 !.ev[e]._rid = rid,
                 !.ev[e]._r_pprev = WaitingLoc(r),
                 !.ev[e]._r_next = w,
                 !.ev[e].at_trigger_ = 0,
                 !.ev[e].at_trigger_f_ = 0,
                 !.rv[r].waiting_ = e]

\* simple_event::initialize(abstract_rendezvous *r, uintptr_t rid): links
\* the event at the head of r's waiting list.
initialize(s, e, r, rid) ==
    LET w == s.rv[r].waiting_
        s1 == [s EXCEPT !.ev[e]._r = r,
                        !.ev[e]._rid = rid,
                        !.ev[e]._r_pprev = WaitingLoc(r)]
        s2 == IF w # 0 THEN [s1 EXCEPT !.ev[w]._r_pprev = NextLoc(e)] ELSE s1
    IN [s2 EXCEPT !.ev[e]._r_next = w,
                  !.ev[e].at_trigger_ = 0,
                  !.ev[e].at_trigger_f_ = 0,
                  !.rv[r].waiting_ = e]

\* simple_event::empty()
empty(s, e) == s.ev[e]._r = 0

\* simple_event(r, ...): the constructors set _refcount to 1 and add the
\* event to its rendezvous.
new_simple_event(s, e, r, rid) ==
    initialize([s EXCEPT !.ev[e]._refcount = 1], e, r, rid)

\* Faulty variant: the copy is not counted.
use_forgets(s, e) == s

\* simple_event::use(e)
use(s, e) == IF e # 0 THEN [s EXCEPT !.ev[e]._refcount = @ + 1] ELSE s

\* delete e: the object is gone; its count goes with it.
delete_event(s, e) == [s EXCEPT !.ev[e].deleted = TRUE, !.ev[e]._refcount = 0]

\* simple_event::unuse_clean(e)
unuse_clean(s, e) ==
    IF e # 0
    THEN (IF s.ev[e]._refcount - 1 = 0
          THEN delete_event(s, e)
          ELSE [s EXCEPT !.ev[e]._refcount = @ - 1])
    ELSE s

(***************************************************************************)
(* explicit_rendezvous                                                     *)
(***************************************************************************)

\* Faulty variant: pops the newest ready event instead of the oldest.
pop_ready_last(s, r) ==
    LET RECURSIVE Last(_)
        Last(e) == IF s.ev[e]._r_next = 0 THEN e ELSE Last(s.ev[e]._r_next)
        RECURSIVE Before(_, _)
        Before(e, l) == IF s.ev[e]._r_next = l THEN e ELSE Before(s.ev[e]._r_next, l)
        l == Last(s.rv[r].ready_)
    IN IF s.rv[r].ready_ = l
       THEN [s |-> unuse_clean([s EXCEPT !.rv[r].ready_ = 0,
                                         !.rv[r].ready_ptail_ = ReadyLoc(r)], l),
             x |-> s.ev[l]._rid]
       ELSE LET b == Before(s.rv[r].ready_, l)
            IN [s |-> unuse_clean([s EXCEPT !.ev[b]._r_next = 0,
                                            !.rv[r].ready_ptail_ = NextLoc(b)], l),
                x |-> s.ev[l]._rid]

\* explicit_rendezvous::pop_ready(): the state after the call (s) and the
\* identifier returned (x).  Called with ready_ non-null.
pop_ready(s, r) ==
    LET e == s.rv[r].ready_
        n == s.ev[e]._r_next
    IN [s |-> unuse_clean([s EXCEPT !.rv[r].ready_ = n,
                                    !.rv[r].ready_ptail_ = IF n = 0 THEN ReadyLoc(r) ELSE @],
                          e),
        x |-> s.ev[e]._rid]

\* explicit_rendezvous::join(): pops one ready identifier if there is one.
\* got tells whether an identifier was returned.
join(s, r) ==
    IF s.rv[r].ready_ # 0
    THEN LET p == pop_ready(s, r)
         IN [s |-> [p.s EXCEPT !.ready_order[r] = Tail(@)], got |-> TRUE, x |-> p.x]
    ELSE [s |-> s, got |-> FALSE, x |-> 0]

(***************************************************************************)
(* Completing an event                                                     *)
(***************************************************************************)

\* The event's unlinking from its owner's waiting list:
\*   *x->_r_pprev = x->_r_next; if (x->_r_next) x->_r_next->_r_pprev = x->_r_pprev;
unlink(s, x) ==
    LET n == s.ev[x]._r_next
        pp == s.ev[x]._r_pprev
        s1 == StoreAt(s, pp, n)
        s2 == IF n # 0 THEN [s1 EXCEPT !.ev[n]._r_pprev = pp] ELSE s1
    IN [s2 EXCEPT !.ev[x]._r = 0]

\* The event joins the tail of its explicit rendezvous's ready queue, which
\* holds a reference to it until pop_ready() gives it up (unuse_clean):
\*   use(x); *ready_ptail_ = x; ready_ptail_ = &x->_r_next; x->_r_next = 0;
add_ready(s, r, x) ==
    LET s1 == StoreAt(use(s, x), s.rv[r].ready_ptail_, x)
    IN [s1 EXCEPT !.rv[r].ready_ptail_ = NextLoc(x), !.ev[x]._r_next = 0]

\* History: event x of rendezvous r has completed and r is ready; r's parked
\* task, if any, is now due to be resumed.
note_ready(s, r, x) ==
    LET s1 == IF s.rv[r].rtype_ = rexplicit
              THEN [s EXCEPT !.ready_order[r] = Append(@, s.ev[x]._rid)] ELSE s
    IN IF s.rv[r]._blocked_closure # 0 /\ \A i \in DOMAIN s.unblock_order : s.unblock_order[i] # r
       THEN [s1 EXCEPT !.unblock_order = Append(@, r)]
       ELSE s1

\* simple_event::simple_trigger(x, values): a no-op on a null or empty
\* event; otherwise unlinks x, clears its owner, tells the rendezvous
\* (explicit: ready queue and unblock; gather: unblock once nothing is
\* waiting; functional: the callback, which for the hidden rendezvous of the
\* at-trigger chain runs the hook the secondary event displaced), then fires
\* the at-trigger hook: a function hook runs, an event hook is triggered in
\* turn.  The reference of whoever triggered is given up by the caller.
RECURSIVE simple_trigger(_, _, _)
simple_trigger(s, x, values) ==
    IF x = 0 THEN s
    ELSE IF s.ev[x]._r = 0 THEN s
    ELSE LET r == s.ev[x]._r
             hook(q, h, f) ==
                 IF h = 0 THEN q
                 ELSE IF f # 0
                      THEN [q EXCEPT !.hookfired[h] = @ + 1,
                                     !.hooklog.log = Append(@, h)]
                      ELSE simple_trigger(q, h, values)
             s1 == unlink(s, x)
             s2 == IF s1.rv[r].rtype_ = rexplicit
                   THEN unblock(note_ready(add_ready(s1, r, x), r, x), r)
                   ELSE IF s1.rv[r].rtype_ = rfunctional
                        THEN hook(s1, s1.ev[x].prior_, s1.ev[x].prior_f_)
                        ELSE IF s1.rv[r].waiting_ = 0
                             THEN unblock(note_ready(s1, r, x), r) ELSE s1
         IN hook(s2, s2.ev[x].at_trigger_, s2.ev[x].at_trigger_f_)

\* _event_superbase::complete(success): completes the event and tells
\* whether this call did it (the event was still armed).
complete(s, e, success) ==
    [s |-> simple_trigger(s, e, success), done |-> e # 0 /\ s.ev[e]._r # 0]

\* Faulty variant: writes the slot whether or not this call completed the event.
event_trigger_always_writes(s, e, v) ==
    LET c == complete(s, e, TRUE)
        t1 == s.ev[e]._t1
    IN IF t1 # 0 THEN [c.s EXCEPT !.store[t1] = v] ELSE c.s

\* _event_base<T1>::trigger(const T1 &t1), reached through event<T1>::trigger
event_trigger(s, e, v) ==
    LET c == complete(s, e, TRUE)
        t1 == s.ev[e]._t1
    IN IF c.done
       THEN (IF t1 # 0 THEN [c.s EXCEPT !.store[t1] = v] ELSE c.s)
       ELSE c.s

\* Faulty variant: cancels by triggering with a value.
event_cancel_writes(s, e) ==
    LET c == complete(s, e, FALSE)
        t1 == s.ev[e]._t1
    IN IF c.done /\ t1 # 0 THEN [c.s EXCEPT !.store[t1] = 1] ELSE c.s

\* event<...>::cancel()
event_cancel(s, e) == complete(s, e, FALSE).s

\* event<>::trigger(), the call the driver makes on the events it holds
trigger_event(s, e) == complete(s, e, TRUE).s

\* simple_event::trigger_for_unuse(): the last reference to an armed event
\* is gone, so the event is triggered as a cancel.
trigger_for_unuse(s, e) == simple_trigger(s, e, FALSE)

\* Faulty variant: frees the event without cancelling it.
unuse_without_cancel(s, e) ==
    IF e # 0
    THEN (IF s.ev[e]._refcount - 1 = 0
          THEN delete_event(s, e)
          ELSE [s EXCEPT !.ev[e]._refcount = @ - 1])
    ELSE s

\* simple_event::unuse(e)
unuse(s, e) ==
    IF e # 0
    THEN (IF s.ev[e]._refcount - 1 = 0
          THEN LET s1 == [s EXCEPT !.ev[e]._refcount = 0]
               IN delete_event(IF s1.ev[e]._r # 0 THEN trigger_for_unuse(s1, e) ELSE s1, e)
          ELSE [s EXCEPT !.ev[e]._refcount = @ - 1])
    ELSE s

\* Faulty variant: the secondary event runs the new hook before the one it
\* displaced.
hard_at_trigger_new_first(s, x, h, f, y) ==
    IF x # 0 /\ s.ev[x]._r # 0
    THEN LET s1 == new_simple_event(s, y, rhidden, 0)
         IN [s1 EXCEPT !.ev[y].prior_ = h,
                       !.ev[y].prior_f_ = f,
                       !.ev[y].at_trigger_ = s.ev[x].at_trigger_,
                       !.ev[y].at_trigger_f_ = s.ev[x].at_trigger_f_,
                       !.ev[x].at_trigger_ = y,
                       !.ev[x].at_trigger_f_ = 0]
    ELSE IF h = 0 THEN s
    ELSE IF f # 0
         THEN [s EXCEPT !.hookfired[h] = @ + 1, !.hooklog.log = Append(@, h)]
         ELSE simple_trigger(s, h, FALSE)

\* simple_event::hard_at_trigger: the hook (h, with f telling a function
\* from an event) cannot be stored inline.  On an event already triggered it
\* fires at once.  On an armed event, which has a hook already, a secondary
\* event y is armed on the hidden rendezvous; it carries the new hook, and
\* the hidden rendezvous runs the hook it displaced before that; the
\* primary's hook becomes "trigger y".
hard_at_trigger(s, x, h, f, y) ==
    IF x # 0 /\ s.ev[x]._r # 0
    THEN LET s1 == new_simple_event(s, y, rhidden, 0)
         IN [s1 EXCEPT !.ev[y].prior_ = s.ev[x].at_trigger_,
                       !.ev[y].prior_f_ = s.ev[x].at_trigger_f_,
                       !.ev[y].at_trigger_ = h,
                       !.ev[y].at_trigger_f_ = f,
                       !.ev[x].at_trigger_ = y,
                       !.ev[x].at_trigger_f_ = 0]
    ELSE IF h = 0 THEN s
    ELSE IF f # 0
         THEN [s EXCEPT !.hookfired[h] = @ + 1, !.hooklog.log = Append(@, h)]
         ELSE simple_trigger(s, h, FALSE)

\* simple_event::at_trigger(x, f, arg1, arg2) with arg1 naming the counter
\* the function bumps; an armed event without a hook stores it inline;
\* y is the object hard_at_trigger allocates if it needs one.
at_trigger_f(s, x, arg1, y) ==
    IF x # 0 /\ s.ev[x]._r # 0 /\ s.ev[x].at_trigger_ = 0
    THEN [s EXCEPT !.ev[x].at_trigger_ = arg1, !.ev[x].at_trigger_f_ = 1]
    ELSE hard_at_trigger(s, x, arg1, 1, y)

\* simple_event::at_trigger(x, at_e): an armed event without a hook stores
\* at_e inline; y is the object hard_at_trigger allocates if it needs one.
at_trigger_e(s, x, at_e, y) ==
    IF x # 0 /\ s.ev[x]._r # 0 /\ s.ev[x].at_trigger_ = 0 /\ at_e # 0
    THEN [s EXCEPT !.ev[x].at_trigger_ = at_e]
    ELSE hard_at_trigger(s, x, at_e, 0, y)

(***************************************************************************)
(* Clearing and destroying a rendezvous                                    *)
(***************************************************************************)

\* simple_event::trigger_list_for_remove(), called on the head of a waiting
\* list: unwinds the whole list as cancellations, each event being
\* completed with values = false, which runs its hook.
RECURSIVE trigger_list_for_remove(_, _, _)
trigger_list_for_remove(s, r, fuel) ==
    IF s.rv[r].waiting_ = 0 \/ fuel = 0 THEN s
    ELSE trigger_list_for_remove(simple_trigger(s, s.rv[r].waiting_, FALSE), r, fuel - 1)

\* Faulty variant: forgets the waiting list without completing its events.
remove_waiting_forgets(s, r) == [s EXCEPT !.rv[r].waiting_ = 0]

\* abstract_rendezvous::remove_waiting()
remove_waiting(s, r) ==
    IF s.rv[r].waiting_ # 0
    THEN [trigger_list_for_remove(s, r, MaxLinked + 1) EXCEPT !.rv[r].waiting_ = 0]
    ELSE s

\* explicit_rendezvous::remove_ready(): gives up every event of the ready
\* queue; the identifiers not yet joined are dropped.
RECURSIVE remove_ready_from(_, _, _)
remove_ready_from(s, r, fuel) ==
    LET e == s.rv[r].ready_
    IN IF e = 0 \/ fuel = 0 THEN s
       ELSE remove_ready_from(unuse_clean([s EXCEPT !.rv[r].ready_ = s.ev[e]._r_next], e),
                              r, fuel - 1)

remove_ready(s, r) ==
    [remove_ready_from(s, r, MaxLinked + 1) EXCEPT !.rv[r].ready_ptail_ = ReadyLoc(r),
                                                   !.ready_order[r] = << >>]

\* rendezvous<>::clear(): the events still waiting are cancelled, the
\* completions not yet joined are dropped.
clear(s, r) ==
    LET s1 == remove_waiting(s, r)
    IN IF s1.rv[r].rtype_ = rexplicit THEN remove_ready(s1, r) ELSE s1

\* abstract_rendezvous::hard_free(): a parked task is queued once, to find
\* its rendezvous empty.
hard_free(s, r) == unblock(s, r)

\* The rendezvous's destructors: the derived class detaches the waiting
\* events (and the ready ones), then ~abstract_rendezvous() deals with a
\* parked task.
destroy_rendezvous(s, r) ==
    LET s1 == clear(s, r)
        s2 == IF s1.rv[r]._blocked_closure # 0 THEN hard_free(s1, r) ELSE s1
    IN [s2 EXCEPT !.rv[r].destroyed = TRUE]

(***************************************************************************)
(* fd wrappers and fd::fdimp                                               *)
(***************************************************************************)

\* A mutex nobody holds: holder is the call that holds it (0 none), waiters
\* the calls waiting for it.
NoMutex == [ holder |-> 0, waiters |-> << >> ]

\* An fdimp not yet allocated.  History: deletes counts the executions of
\* `delete this`, stale says that a member was read after the first of them.
NoFdimp ==
    [ made |-> FALSE, fd |-> 0 - EBADF, rlock |-> NoMutex, wlock |-> NoMutex,
      at_close |-> << >>,
      _refcount |-> 0, _weak_refcount |-> 0,
      deleted |-> FALSE, closes |-> 0, explicit |-> FALSE,
      deletes |-> 0, stale |-> FALSE ]

\* A read or write call that was not made: imp is the fdimp it works on,
\* dir "r" or "w", left the bytes still to transfer, state "none", "waiting"
\* (for the mutex), "holding" (the mutex) or "done" (its done event fired);
\* ahead is history, the number of calls that were before it at the mutex
\* when it was made.
NoOp == [ state |-> "none", imp |-> 0, dir |-> "r", left |-> 0, ahead |-> 0 ]

\* fdimp::fdimp(fd_)
new_fdimp(s, i, value) ==
    [s EXCEPT !.fdst.imp[i] = [NoFdimp EXCEPT !.made = TRUE, !.fd = value, !._refcount = 1]]

\* at_close.trigger(): at_close is the event distribute() made of the
\* notifiers; triggering it triggers each of them, and the references it
\* held go away.
RECURSIVE at_close_trigger(_, _)
at_close_trigger(s, i) ==
    LET q == s.fdst.imp[i].at_close
    IN IF q = << >> THEN s
       ELSE LET e == Head(q)
                s1 == [s EXCEPT !.fdst.imp[i].at_close = Tail(q),
                                !.fdst.atc_calls[e] = @ + 1]
            IN at_close_trigger(unuse(trigger_event(s1, e), e), i)

\* fdimp::close(): the descriptor is closed with the close system call, the
\* object remembers that it has none, and the close notifiers are triggered.
fdimp_close(s, i) ==
    at_close_trigger([s EXCEPT !.fdst.imp[i].fd = 0 - EBADF, !.fdst.imp[i].closes = @ + 1], i)

\* delete this
delete_this(s, i) ==
    [s EXCEPT !.fdst.imp[i].deleted = TRUE, !.fdst.imp[i].deletes = @ + 1]

\* fdimp::use()
fdimp_use(s, i) == [s EXCEPT !.fdst.imp[i]._refcount = @ + 1]

\* Faulty variant: closes the descriptor whenever a reference goes away.
fdimp_unuse_closes_early(s, i) ==
    LET s1 == [s EXCEPT !.fdst.imp[i]._refcount = @ - 1]
        s2 == IF s1.fdst.imp[i].fd >= 0 THEN fdimp_close(s1, i) ELSE s1
    IN IF s1.fdst.imp[i]._refcount = 0 /\ s2.fdst.imp[i]._weak_refcount = 0
       THEN delete_this(s2, i)
       ELSE s2

\* fdimp::unuse()
fdimp_unuse(s, i) ==
    LET s1 == [s EXCEPT !.fdst.imp[i]._refcount = @ - 1]
    IN IF s1.fdst.imp[i]._refcount = 0
       THEN LET s2 == IF s1.fdst.imp[i].fd >= 0 THEN fdimp_close(s1, i) ELSE s1
            IN IF s2.fdst.imp[i]._weak_refcount = 0
               THEN delete_this(s2, i)
               ELSE s2
       ELSE s1

\* fdimp::weak_use()
fdimp_weak_use(s, i) == [s EXCEPT !.fdst.imp[i]._weak_refcount = @ + 1]

\* fdimp::weak_unuse()
fdimp_weak_unuse(s, i) ==
    LET s1 == [s EXCEPT !.fdst.imp[i]._weak_refcount = @ - 1]
    IN IF s1.fdst.imp[i]._weak_refcount = 0 /\ s1.fdst.imp[i]._refcount = 0
       THEN delete_this(s1, i)
       ELSE s1

\* fdimp::unuse() taking the last reference of an open descriptor, with a
\* weak_unuse() called from inside close() (by a callback that close() runs
\* and that held the last weak reference).  When close() returns, unuse()
\* tests _weak_refcount of an object weak_unuse() has deleted; the freed
\* memory may still hold 0 (zero is TRUE) or anything else.
fdimp_unuse_weak_in_close(s, i, zero) ==
    LET s1 == [s EXCEPT !.fdst.imp[i]._refcount = @ - 1]
        s2 == IF s1.fdst.imp[i].fd >= 0 THEN fdimp_close(s1, i) ELSE s1
        s3 == fdimp_weak_unuse(s2, i)
        s4 == IF s3.fdst.imp[i].deleted THEN [s3 EXCEPT !.fdst.imp[i].stale = TRUE] ELSE s3
    IN IF (IF s3.fdst.imp[i].deleted THEN zero ELSE s3.fdst.imp[i]._weak_refcount = 0)
       THEN delete_this(s4, i)
       ELSE s4

\* The mutex of fdimp i that serialises direction dir.
lock_of(s, i, dir) == IF dir = "r" THEN s.fdst.imp[i].rlock ELSE s.fdst.imp[i].wlock

set_lock(s, i, dir, m) ==
    IF dir = "r" THEN [s EXCEPT !.fdst.imp[i].rlock = m]
                 ELSE [s EXCEPT !.fdst.imp[i].wlock = m]

\* mutex::acquire for call o: taken at once when free, else o waits its turn.
mutex_acquire(s, i, dir, o) ==
    LET m == lock_of(s, i, dir)
    IN IF m.holder = 0
       THEN [set_lock(s, i, dir, [m EXCEPT !.holder = o]) EXCEPT !.fdst.op[o].state = "holding"]
       ELSE [set_lock(s, i, dir, [m EXCEPT !.waiters = Append(@, o)])
                EXCEPT !.fdst.op[o].state = "waiting",
                       !.fdst.op[o].ahead = Len(m.waiters) + 1]

\* Faulty variant: the mutex goes to the call that waited least.
mutex_release_newest(s, i, dir) ==
    LET m == lock_of(s, i, dir)
        n == Len(m.waiters)
    IN IF n = 0
       THEN set_lock(s, i, dir, [m EXCEPT !.holder = 0])
       ELSE [set_lock(s, i, dir, [holder |-> m.waiters[n], waiters |-> SubSeq(m.waiters, 1, n - 1)])
                EXCEPT !.fdst.op[m.waiters[n]].state = "holding"]

\* mutex::release: the mutex goes to the call that waited longest.
mutex_release(s, i, dir) ==
    LET m == lock_of(s, i, dir)
    IN IF m.waiters = << >>
       THEN set_lock(s, i, dir, [m EXCEPT !.holder = 0])
       ELSE [set_lock(s, i, dir, [holder |-> Head(m.waiters), waiters |-> Tail(m.waiters)])
                EXCEPT !.fdst.op[Head(m.waiters)].state = "holding"]

\* fd::read / fd::write of size bytes, call o, through wrapper w: the call
\* takes the mutex of its direction before it touches the descriptor.
fd_io(s, w, dir, size, o) ==
    LET i == s.fdst.p[w]
        s1 == [s EXCEPT !.fdst.op[o] = [NoOp EXCEPT !.imp = i, !.dir = dir, !.left = size],
                        !.fdst.issued = Append(@, o)]
    IN mutex_acquire(s1, i, dir, o)

\* The call that holds the mutex transfers n bytes (n = 0: end of file or an
\* error) when the descriptor is ready; with nothing left to do it releases
\* the mutex and triggers its done event.
fd_io_step(s, o, n) ==
    LET c == s.fdst.op[o]
        s1 == [s EXCEPT !.fdst.op[o].left = IF n = 0 THEN 0 ELSE c.left - n]
    IN IF s1.fdst.op[o].left = 0
       THEN [mutex_release(s1, c.imp, c.dir)
                EXCEPT !.fdst.op[o].state = "done", !.fdst.completed = Append(@, o)]
       ELSE s1

\* fd::fd(int value) for wrapper w; i is the object new returns.
fd_new(s, w, value, i) ==
    IF value = 0 - EBADF
    THEN [s EXCEPT !.fdst.p[w] = 0]
    ELSE [new_fdimp(s, i, value) EXCEPT !.fdst.p[w] = i]

\* fd::fd(const fd &other) for wrapper w
fd_copy(s, w, other) ==
    LET s1 == [s EXCEPT !.fdst.p[w] = s.fdst.p[other]]
    IN IF s1.fdst.p[w] # 0 THEN fdimp_use(s1, s1.fdst.p[w]) ELSE s1

\* fd::~fd()
fd_destroy(s, w) ==
    LET s1 == IF s.fdst.p[w] # 0 THEN fdimp_unuse(s, s.fdst.p[w]) ELSE s
    IN [s1 EXCEPT !.fdst.p[w] = 0 - 1]

\* fd::operator=(const fd &other)
fd_assign(s, w, other) ==
    LET o == s.fdst.p[other]
        s1 == IF o # 0 THEN fdimp_use(s, o) ELSE s
        s2 == IF s1.fdst.p[w] # 0 THEN fdimp_unuse(s1, s1.fdst.p[w]) ELSE s1
    IN [s2 EXCEPT !.fdst.p[w] = o]

\* fd::valid()
fd_valid(s, w) == s.fdst.p[w] # 0 /\ s.fdst.imp[s.fdst.p[w]].fd >= 0

\* distribute(_p->at_close, e): the event that forwards its trigger to what
\* at_close forwarded to before, and to e; it holds a reference to e.
distribute_at_close(s, i, e) ==
    [use(s, e) EXCEPT !.fdst.imp[i].at_close = Append(@, e)]

\* Faulty variant: registers the notifier whether or not the wrapper is valid.
fd_at_close_always_registers(s, w, e) ==
    LET i == s.fdst.p[w]
        s1 == [s EXCEPT !.fdst.atc_imp[e] = IF i > 0 /\ s.fdst.imp[i].fd >= 0 THEN i ELSE 0]
    IN IF i > 0 THEN distribute_at_close(s1, i, e) ELSE s1

\* fd::at_close(e)
fd_at_close(s, w, e) ==
    LET i == s.fdst.p[w]
        s1 == [s EXCEPT !.fdst.atc_imp[e] = IF i > 0 /\ s.fdst.imp[i].fd >= 0 THEN i ELSE 0]
    IN IF ~(i # 0 /\ s.fdst.imp[i].fd >= 0)
       THEN [trigger_event(s1, e) EXCEPT !.fdst.atc_calls[e] = @ + 1]
       ELSE distribute_at_close(s1, i, e)

\* fd::close()
fd_close(s, w) ==
    IF fd_valid(s, w)
    THEN [fdimp_close(s, s.fdst.p[w]) EXCEPT !.fdst.imp[s.fdst.p[w]].explicit = TRUE]
    ELSE s

(***************************************************************************)
(* The driver's data                                                       *)
(***************************************************************************)

\* event<>::operator bool: the event is armed.  0 is the dead event that a
\* default-constructed event<> refers to.
armed(s, e) == e # 0 /\ s.ev[e]._r # 0

\* timercmp(&a->expiry, &b->expiry, >)
timer_gt(a, b) == a.expiry > b.expiry

\* _t[pos] = t, t->u.schedpos = pos (positions count from 0)
set_timer(T, pos, t) == [T EXCEPT ![pos + 1] = [t EXCEPT !.schedpos = pos]]

\* driver::timer_reheapify_from, first loop: t moves up from pos while its
\* parent expires later; the parents move down.  Yields the array and the
\* position reached.
RECURSIVE sift_up(_, _, _)
sift_up(T, pos, t) ==
    IF pos > 0 /\ timer_gt(T[((pos - 1) \div 2) + 1], t)
    THEN LET npos == (pos - 1) \div 2
         IN sift_up(set_timer(T, pos, T[npos + 1]), npos, t)
    ELSE [T |-> T, pos |-> pos]

\* Faulty variant: looks at the first child only.
RECURSIVE sift_down_first_child(_, _, _, _)
sift_down_first_child(T, nt, pos, t) ==
    LET tp == 2 * pos + 1
        c0 == tp < nt /\ ~timer_gt(T[tp + 1], t)
        smallest == IF c0 THEN T[tp + 1] ELSE t
        T1 == set_timer(T, pos, smallest)
    IN IF smallest.id = t.id THEN T1 ELSE sift_down_first_child(T1, nt, tp, t)

\* driver::timer_reheapify_from, second loop: the smallest of t and the two
\* children of pos is stored at pos, until that is t.
RECURSIVE sift_down(_, _, _, _)
sift_down(T, nt, pos, t) ==
    LET tp == 2 * pos + 1
        c0 == tp < nt /\ ~timer_gt(T[tp + 1], t)
        s0 == IF c0 THEN T[tp + 1] ELSE t
        c1 == tp + 1 < nt /\ ~timer_gt(T[tp + 2], s0)
        smallest == IF c1 THEN T[tp + 2] ELSE s0
        tp1 == IF c1 THEN tp + 1 ELSE tp
        T1 == set_timer(T, pos, smallest)
    IN IF smallest.id = t.id THEN T1 ELSE sift_down(T1, nt, tp1, t)

\* driver::timer_reheapify_from(pos, t, will_delete) on the array T = _t with
\* nt = _nt scheduled timers
timer_reheapify_from(T, nt, pos, t) ==
    LET u == sift_up(T, pos, t)
    IN sift_down(u.T, nt, u.pos, t)

\* The root is removed from the heap: timer_reheapify_from(0, _t[_nt - 1],
\* true); _nt--; the slot goes back to the free list.
pop_timer(s) ==
    LET nt == s.drv._nt
        T == timer_reheapify_from(s.drv._t, nt, 0, s.drv._t[nt])
    IN [s EXCEPT !.drv._t = SubSeq(T, 1, nt - 1),
                 !.drv._nt = nt - 1,
                 !.drv._tfree = @ + 1]

\* driver::expand_fds(fd): the capacity doubles (from 16) until fd*2 fits;
\* the new slots hold default-constructed events.
\* "while (fd*2 >= ncap) ncap *= 2": the capacity the loop ends with.  Once
\* ncap is 0 doubling leaves it 0: the loop goes round for ever, and 0
\* stands for that here (0 does not satisfy the loop's exit test).
RECURSIVE grow_cap(_, _)
grow_cap(ncap, fd) ==
    IF AsInt(fd * 2) >= ncap
    THEN IF ncap = 0 THEN 0 ELSE grow_cap(AsInt(ncap * 2), fd)
    ELSE ncap

\* fault "hang": the doubling loop does not end.
expand_fds(s, fd) ==
    LET ncap == grow_cap(IF s.drv._fdcap # 0 THEN AsInt(s.drv._fdcap * 2) ELSE 16, fd)
    IN IF AsInt(fd * 2) >= ncap
       THEN [s EXCEPT !.fault = "hang"]
       ELSE [s EXCEPT !.drv._fd = [i \in 0..(ncap - 1) |->
                                      IF i < s.drv._fdcap THEN s.drv._fd[i] ELSE 0],
                      !.drv._fdcap = ncap]

\* driver::at_fd(fd, write, trigger), write being 0 or 1.  fault "bounds":
\* the slot written is not one of the table's.
at_fd(s, fd, write, trigger) ==
    LET s1 == IF AsInt(fd * 2) >= s.drv._fdcap THEN expand_fds(s, fd) ELSE s
        slot == AsInt(AsInt(fd * 2) + write)
        s2 == [s1 EXCEPT !.drv._fd[slot] = trigger]
    IN IF s1.fault = "hang" THEN s1
       ELSE IF slot \notin DOMAIN s1.drv._fd THEN [s1 EXCEPT !.fault = "bounds"]
       ELSE IF armed(s2, trigger)
       THEN LET s3 == IF write = 1
                      THEN [s2 EXCEPT !.drv._writefds = @ \cup {fd}]
                      ELSE [s2 EXCEPT !.drv._readfds = @ \cup {fd}]
            IN IF fd >= s3.drv._nfds THEN [s3 EXCEPT !.drv._nfds = fd + 1] ELSE s3
       ELSE IF write = 1
            THEN [s2 EXCEPT !.drv._writefds = @ \ {fd}]
            ELSE [s2 EXCEPT !.drv._readfds = @ \ {fd}]

\* Faulty variant: installs the handler without SA_RESETHAND.
at_signal_keeps_handler(s, signal, trigger, p) ==
    LET s1 == IF armed(s, trigger) /\ s.sig.sig_pipe < 0
              THEN [s EXCEPT !.sig.sig_pipe = p] ELSE s
    IN [s1 EXCEPT !.sig.sig_handlers[signal] = trigger,
                  !.os.sa_handler[signal] =
                      IF armed(s, trigger) THEN "tame_signal_handler" ELSE "SIG_DFL",
                  !.os.sa_resethand[signal] = FALSE]

\* driver::at_signal(signal, trigger); p is the descriptor pipe() returns
\* for the read end if the pipe is created by this call.
at_signal(s, signal, trigger, p) ==
    LET s1 == IF armed(s, trigger) /\ s.sig.sig_pipe < 0
              THEN [s EXCEPT !.sig.sig_pipe = p] ELSE s
    IN [s1 EXCEPT !.sig.sig_handlers[signal] = trigger,
                  !.os.sa_handler[signal] =
                      IF armed(s, trigger) THEN "tame_signal_handler" ELSE "SIG_DFL",
                  !.os.sa_resethand[signal] = TRUE]

\* tame_signal_handler(signal)
tame_signal_handler(s, signal) ==
    [s EXCEPT !.sig.sig_active[signal] = 1,
              !.sig.sig_any_active = 1,
              !.os.pipe_bytes = @ + 1,
              !.os.blocked = @ \cup {signal}]

\* The kernel delivers a signal whose action is a handler: with SA_RESETHAND
\* the action goes back to the default, then the handler runs; when the
\* handler returns, the signal mask in force before the delivery is restored
\* (sigreturn), which undoes the handler's sigprocmask.
signal_delivery(s, signal) ==
    LET h == tame_signal_handler(IF s.os.sa_resethand[signal]
                                 THEN [s EXCEPT !.os.sa_handler[signal] = "SIG_DFL"]
                                 ELSE s,
                                 signal)
    IN [h EXCEPT !.os.blocked = s.os.blocked]

\* at_asap(e): e joins the end of the asap array.
at_asap(s, e) == [s EXCEPT !.drv._asap = Append(@, e)]

\* at_time(expiry, e): a timer slot is taken from the free list, placed at
\* the end of the heap array and moved up to its place.
at_time(s, expiry, e) ==
    LET nt == s.drv._nt
        used == { s.drv._t[i].id : i \in 1..nt }
        slot == CHOOSE i \in 1..(nt + 1) : i \notin used /\ \A j \in 1..(i - 1) : j \in used
        t == [id |-> slot, expiry |-> expiry, trigger |-> e, schedpos |-> nt]
        T == timer_reheapify_from(Append(s.drv._t, t), nt + 1, nt, t)
    IN [s EXCEPT !.drv._t = T,
                 !.drv._nt = nt + 1,
                 !.drv._tfree = @ - 1]

\* driver::driver(): expand_timers() puts 16 slots on the free list.
NewDriver ==
    [ _t |-> << >>, _nt |-> 0, _tfree |-> 16, now |-> 0,
      _asap |-> << >>, _fd |-> << >>, _fdcap |-> 0, _nfds |-> 0,
      _readfds |-> {}, _writefds |-> {} ]

NoLocals ==
    [ to |-> 0, rfds |-> {}, wfds |-> {}, nfds |-> 0, sigs_unblock |-> {}, errno |-> "none",
      drain0 |-> << >>, discarded |-> << >>, expired |-> << >>, asap0 |-> << >> ]

(***************************************************************************)
(* driver::once(), phase by phase                                          *)
(***************************************************************************)

\* History: the turn triggers an event of this kind, or resumes a task.
note_fired(s, kind) ==
    IF Len(s.fired) > 0 /\ s.fired[Len(s.fired)] = kind THEN s
    ELSE [s EXCEPT !.fired = Append(@, kind)]

\* The driver calls trigger() on an event it holds; the history notes the
\* call if the event was still armed.
fire(s, e, kind) ==
    IF armed(s, e) THEN note_fired(trigger_event(s, e), kind) ELSE trigger_event(s, e)

\* The phases of once() in the order of its text: the code up to the call of
\* select, select, the signal events, the rendezvous run after them, the
\* signals unblocked and the pipe read empty, the asap events, the
\* descriptor events, the timers, the rendezvous; then once() returns.
once_phases ==
    << "select", "signals", "sigdrain", "sigread", "asap", "fds", "timers", "drain", "idle" >>

\* Faulty variant: the descriptor events before the asap events.
after_phase_fds_first(p) ==
    LET order == << "select", "signals", "sigdrain", "sigread", "fds", "asap", "timers",
                    "drain", "idle" >>
        i == CHOOSE j \in DOMAIN order : order[j] = p
    IN order[i + 1]

\* The phase that follows p.
after_phase(p) ==
    LET i == CHOOSE j \in DOMAIN once_phases : once_phases[j] = p
    IN once_phases[i + 1]

\* History: timer t is removed from the heap.  The timers the head cleanup
\* discarded are kept until select returns, the timers the timer phase
\* removed until the rendezvous loop takes its first step.
note_timer(s, t, log) ==
    LET entry == [id |-> t.id, expiry |-> t.expiry, trigger |-> t.trigger,
                  armed |-> armed(s, t.trigger)]
    IN IF log = "discarded" THEN [s EXCEPT !.turn.discarded = Append(@, entry)]
       ELSE [s EXCEPT !.turn.expired = Append(@, entry)]

\* Faulty variant: leaves cancelled timers at the head of the heap.
once_cancelled_timers_skips(s) == s

\* "get rid of initial cancelled timers"
RECURSIVE once_cancelled_timers(_)
once_cancelled_timers(s) ==
    IF s.drv._nt > 0 /\ ~armed(s, s.drv._t[1].trigger)
    THEN once_cancelled_timers(pop_timer(note_timer(s, s.drv._t[1], "discarded")))
    ELSE s

\* Faulty variant: takes no account of a signal noted by the handler.
once_timeout_ignores_signals(s) ==
    IF \/ Len(s.drv._asap) > 0
       \/ (s.drv._nt > 0 /\ ~(s.drv._t[1].expiry > s.drv.now))
    THEN 0
    ELSE IF s.drv._nt = 0 THEN 0 - 1
    ELSE s.drv._t[1].expiry - s.drv.now

\* "determine timeout": 0, none (-1, select may wait for ever) or the time
\* left until the first timer expires
once_timeout(s) ==
    IF \/ Len(s.drv._asap) > 0
       \/ (s.drv._nt > 0 /\ ~(s.drv._t[1].expiry > s.drv.now))
       \/ s.sig.sig_any_active # 0
    THEN 0
    ELSE IF s.drv._nt = 0 THEN 0 - 1
    ELSE s.drv._t[1].expiry - s.drv.now

\* Faulty variant: leaves _nfds as it is.
once_dead_fds_skips(s) == s

\* "get rid of dead descriptors"
RECURSIVE once_dead_fds(_)
once_dead_fds(s) ==
    IF /\ s.drv._nfds # 0
       /\ ~armed(s, s.drv._fd[s.drv._nfds * 2 - 2])
       /\ ~armed(s, s.drv._fd[s.drv._nfds * 2 - 1])
    THEN once_dead_fds([s EXCEPT !.drv._nfds = @ - 1])
    ELSE s

\* The arguments of select: copies of the two sets, the signal pipe added
\* to the read set, the descriptor count.
once_select_args(s) ==
    LET p == s.sig.sig_pipe
    IN [s EXCEPT !.turn.rfds = IF p >= 0 THEN s.drv._readfds \cup {p} ELSE s.drv._readfds,
                 !.turn.wfds = s.drv._writefds,
                 !.turn.nfds = IF p >= 0 /\ p > s.drv._nfds THEN p + 1 ELSE s.drv._nfds]

\* once() from its entry to the call of select
once_prepare(s) ==
    LET s1 == once_cancelled_timers(s)
        s2 == [s1 EXCEPT !.turn.to = once_timeout(s1)]
    IN once_select_args(once_dead_fds(s2))

\* "check signals": every active signal's event is triggered, lowest signal
\* first, and the signal is noted for unblocking.
RECURSIVE once_signals_from(_, _)
once_signals_from(s, g) ==
    IF g >= NSIGNALS THEN s
    ELSE IF g \in Signals /\ s.sig.sig_active[g] # 0
         THEN LET s1 == [s EXCEPT !.sig.sig_active[g] = 0]
                  s2 == fire(s1, s1.sig.sig_handlers[g], "signal")
              IN once_signals_from([s2 EXCEPT !.turn.sigs_unblock = @ \cup {g}], g + 1)
         ELSE once_signals_from(s, g + 1)

once_signals(s) ==
    once_signals_from([s EXCEPT !.sig.sig_any_active = 0, !.turn.sigs_unblock = {}], 0)

\* sigprocmask(SIG_UNBLOCK, &sigs_unblock, 0)
once_unblock_signals(s) == [s EXCEPT !.os.blocked = @ \ s.turn.sigs_unblock]

\* Faulty variant: triggers the asap events and keeps them registered.
RECURSIVE once_asap_keeps_from(_, _)
once_asap_keeps_from(s, n) ==
    IF n > 0 THEN once_asap_keeps_from(fire(s, s.drv._asap[n], "asap"), n - 1) ELSE s

once_asap_keeps(s) == once_asap_keeps_from(s, Len(s.drv._asap))

\* Faulty variant: triggers the asap events from the first registered to the
\* last.
RECURSIVE once_asap_fifo(_)
once_asap_fifo(s) ==
    IF Len(s.drv._asap) > 0
    THEN LET s1 == [s EXCEPT !.drv._asap = Tail(@)]
         IN once_asap_fifo(fire(s1, s.drv._asap[1], "asap"))
    ELSE s

\* "run asaps": from the last registered to the first; the array ends empty.
RECURSIVE once_asap(_)
once_asap(s) ==
    IF Len(s.drv._asap) > 0
    THEN LET n == Len(s.drv._asap)
             s1 == [s EXCEPT !.drv._asap = SubSeq(@, 1, n - 1)]
         IN once_asap(fire(s1, s.drv._asap[n], "asap"))
    ELSE s

\* Faulty variant: triggers the events and leaves the descriptors registered.
RECURSIVE once_fds_from_keeps(_, _)
once_fds_from_keeps(s, fd) ==
    IF fd >= s.drv._nfds THEN s
    ELSE LET s1 == IF fd \in s.turn.rfds THEN fire(s, s.drv._fd[fd * 2], "fd") ELSE s
             s2 == IF fd \in s1.turn.wfds THEN fire(s1, s1.drv._fd[fd * 2 + 1], "fd") ELSE s1
         IN once_fds_from_keeps(s2, fd + 1)

\* "run the file descriptors": for each descriptor below _nfds that select
\* reported, the bit is cleared and the event triggered, read before write.
RECURSIVE once_fds_from(_, _)
once_fds_from(s, fd) ==
    IF fd >= s.drv._nfds THEN s
    ELSE LET s1 == IF fd \in s.turn.rfds
                   THEN fire([s EXCEPT !.drv._readfds = @ \ {fd}], s.drv._fd[fd * 2], "fd")
                   ELSE s
             s2 == IF fd \in s1.turn.wfds
                   THEN fire([s1 EXCEPT !.drv._writefds = @ \ {fd}],
                             s1.drv._fd[fd * 2 + 1], "fd")
                   ELSE s1
         IN once_fds_from(s2, fd + 1)

once_fds(s) == IF s.turn.nfds >= 0 THEN once_fds_from(s, 0) ELSE s

\* Faulty variant: removes and triggers the root whether or not it is due.
RECURSIVE once_expired_timers_all(_)
once_expired_timers_all(s) ==
    IF s.drv._nt > 0
    THEN LET t == s.drv._t[1]
         IN once_expired_timers_all(fire(pop_timer(note_timer(s, t, "expired")), t.trigger, "timer"))
    ELSE s

\* "run the timers that worked": the clock is read, then every root that
\* does not expire after it is removed and its event triggered.
RECURSIVE once_expired_timers(_)
once_expired_timers(s) ==
    IF s.drv._nt > 0 /\ ~(s.drv._t[1].expiry > s.drv.now)
    THEN LET t == s.drv._t[1]
         IN once_expired_timers(fire(pop_timer(note_timer(s, t, "expired")), t.trigger, "timer"))
    ELSE s

once_timers(s) == once_expired_timers([s EXCEPT !.drv.now = s.os.clock])

\* Faulty variant: the rendezvous loop gives up with rendezvous left.
once_drain_done_early(s) == TRUE

\* "while (_rendezvous_base *r = _rendezvous_base::unblocked)": the loop ends
\* when the unblocked FIFO is empty.
once_drain_done(s) == s.unblocked = 0


(***************************************************************************)
(* The linked lists, read off the heap                                     *)
(***************************************************************************)

RECURSIVE WalkUnblocked(_, _, _)
WalkUnblocked(s, r, fuel) ==
    IF r = 0 \/ r = unblocked_sentinel \/ fuel = 0 THEN << >>
    ELSE << r >> \o WalkUnblocked(s, s.rv[r].unblocked_next_, fuel - 1)

\* The unblocked FIFO from its head; a walk longer than the number of
\* rendezvous has met one of them twice.
UnblockedList(s) == WalkUnblocked(s, s.unblocked, Cardinality(Rendezvous) + 1)

RECURSIVE WalkEvents(_, _, _)
WalkEvents(s, e, fuel) ==
    IF e = 0 \/ fuel = 0 THEN << >>
    ELSE << e >> \o WalkEvents(s, s.ev[e]._r_next, fuel - 1)

\* The identifiers in r's ready queue, from its head.
ReadyRids(s, r) ==
    LET L == WalkEvents(s, s.rv[r].ready_, MaxLinked + 1)
    IN [i \in 1..Len(L) |-> s.ev[L[i]]._rid]

\* The events in r's waiting list, from its head.
WaitingList(s, r) == WalkEvents(s, s.rv[r].waiting_, MaxLinked + 1)

Range(f) == { f[i] : i \in DOMAIN f }
Queued(s, r) == r \in Range(UnblockedList(s))

(***************************************************************************)
(* The program: user code (main, or the task whose activator is running),  *)
(* and the driver's rendezvous drain.                                      *)
(***************************************************************************)

NoEvent ==
    [ _r |-> 0, _rid |-> 0, _r_next |-> 0, _r_pprev |-> NoLoc,
      at_trigger_ |-> 0, at_trigger_f_ |-> 0, _t1 |-> 0,
      prior_ |-> 0, prior_f_ |-> 0,
      _refcount |-> 0, deleted |-> FALSE, facades |-> 0 ]

\* abstract_rendezvous(flags, rtype) and explicit_rendezvous(flags).  The
\* constructor does not initialize unblocked_next_; block() writes it before
\* unblock() reads it (unblock() looks at _blocked_closure first).
NewRendezvous(r, rtype) ==
    [ rtype_ |-> rtype, waiting_ |-> 0, _blocked_closure |-> 0, unblocked_next_ |-> 0,
      ready_ |-> 0, ready_ptail_ |-> ReadyLoc(r), destroyed |-> FALSE, clears |-> 0 ]

\* tamer_closure(activator)
NewClosure == [ tamer_block_position_ |-> 0, tamer_blocked_line_ |-> 0, st |-> "idle", asked |-> 0 ]

Init ==
    /\ ev = [e \in Events |-> NoEvent]
    /\ nev = 0
    /\ \E types \in [Rendezvous -> {rgather, rexplicit}] :
           \* rendezvous are interchangeable: gather ones get the lower numbers
           /\ \A r1, r2 \in Rendezvous : r1 <= r2 => types[r1] <= types[r2]
           /\ rv = [r \in Rendezvous \cup {rhidden} |->
                        IF r = rhidden THEN NewRendezvous(r, rfunctional)
                        ELSE NewRendezvous(r, types[r])]
    /\ unblocked = 0
    /\ unblocked_ptail = UnblockedLoc
    /\ closure = [c \in Closures |-> NewClosure]
    /\ store = [e \in Events |-> 0]
    /\ fault = "none"
    /\ pc = "idle"
    /\ hookfired = [e \in Events |-> 0]
    /\ hooklog = [ reg |-> [e \in Events |-> << >>], log |-> << >> ]
    /\ fdst = [ p |-> [w \in Wrappers |-> 0 - 1], imp |-> [i \in Imps |-> NoFdimp],
                op |-> [o \in Ops |-> NoOp], issued |-> << >>, completed |-> << >>,
                atc_imp |-> [e \in Events |-> 0 - 1], atc_calls |-> [e \in Events |-> 0] ]
    /\ ready_order = [r \in Rendezvous |-> << >>]
    /\ unblock_order = << >>
    /\ drv = NewDriver
    /\ sig = [ sig_pipe |-> 0 - 1, sig_any_active |-> 0,
               sig_active |-> [g \in Signals |-> 0], sig_handlers |-> [g \in Signals |-> 0] ]
    /\ os = [ clock |-> 0, sa_handler |-> [g \in Signals |-> "SIG_DFL"],
              sa_resethand |-> [g \in Signals |-> FALSE],
              default_taken |-> [g \in Signals |-> FALSE],
              blocked |-> {}, pipe_bytes |-> 0 ]
    /\ turn = NoLocals
    /\ fired = << >>

Running(c) == closure[c].st = "running"
NoRunning == \A c \in Closures : ~Running(c)

\* User code runs outside a turn (main) or inside an activator.
InUserCode == pc = "idle" \/ ~NoRunning

\* The task that owns rendezvous r, and so is the one to block on it.
owner(r) == r

\* make_event(r, [id], [slot]): a new event armed on r; an explicit
\* rendezvous gets the event's number as its identifier.
MakeEventUpTo(r, slotted, max) ==
    /\ InUserCode
    /\ nev < max
    /\ ~rv[r].destroyed
    /\ LET e == nev + 1
           rid == IF rv[r].rtype_ = rexplicit THEN e ELSE 0
           s == new_simple_event(St, e, r, rid)
       IN Commit([s EXCEPT !.ev[e]._t1 = IF slotted THEN e ELSE 0,
                           !.ev[e].facades = 1])
    /\ nev' = nev + 1
    /\ UNCHANGED pc

MakeEvent(r, slotted) == MakeEventUpTo(r, slotted, MaxEvents)

\* e.trigger(v)
Trigger(e, v) ==
    /\ InUserCode
    /\ e <= nev /\ ev[e].facades > 0
    /\ Commit(event_trigger(St, e, v))
    /\ UNCHANGED << nev, pc >>

\* e.cancel()
Cancel(e) ==
    /\ InUserCode
    /\ e <= nev /\ ev[e].facades > 0
    /\ Commit(event_cancel(St, e))
    /\ UNCHANGED << nev, pc >>

\* at_trigger(e, f, arg1, arg2), on an event that has no hook yet
AtTriggerF(e) ==
    /\ InUserCode
    /\ e <= nev /\ ev[e].facades > 0
    /\ ev[e].at_trigger_ = 0
    /\ hookfired[e] = 0
    /\ Commit(at_trigger_f(St, e, e, 0))
    /\ UNCHANGED << nev, pc >>

\* at_trigger(x, f, h, 0) on an armed event, whatever hooks it has; h names a
\* function hook not used before.  A hook beyond the first takes a new
\* object for the secondary event.
AtTriggerNext(x, h) ==
    /\ InUserCode
    /\ x <= nev /\ ev[x].facades > 0 /\ ev[x]._r # 0
    /\ hookfired[h] = 0
    /\ \A e \in Events : \A i \in DOMAIN hooklog.reg[e] : hooklog.reg[e][i] # h
    /\ LET chained == ev[x].at_trigger_ # 0
           y == IF chained THEN nev + 1 ELSE 0
       IN /\ chained => nev < MaxEvents
          /\ Commit([at_trigger_f(St, x, h, y) EXCEPT !.hooklog.reg[x] = Append(@, h)])
          /\ nev' = IF chained THEN nev + 1 ELSE nev
    /\ UNCHANGED pc

\* at_trigger(x, at_e), on an event that has no hook yet
AtTriggerE(x, at_e) ==
    /\ InUserCode
    /\ x <= nev /\ at_e <= nev /\ x # at_e /\ ev[x].facades > 0 /\ ev[at_e].facades > 0
    /\ ev[x].at_trigger_ = 0
    /\ Commit(at_trigger_e(St, x, at_e, 0))
    /\ UNCHANGED << nev, pc >>

\* r.join(id)
Join(r) ==
    /\ InUserCode
    /\ rv[r].rtype_ = rexplicit
    /\ IF rv[r].ready_ # 0 /\ ev[rv[r].ready_].deleted
       THEN Commit([St EXCEPT !.fault = "freed"])   \* pop_ready() reads a freed event
       ELSE Commit(join(St, r).s)
    /\ UNCHANGED << nev, pc >>

\* A rendezvous_owner of r goes out of scope: r.clear().
Clear(r) ==
    /\ InUserCode
    /\ ~rv[r].destroyed
    /\ rv[r].clears < MaxClears
    /\ Commit([clear(St, r) EXCEPT !.rv[r].clears = @ + 1])
    /\ UNCHANGED << nev, pc >>

\* Rendezvous r goes out of scope.
Destroy(r) ==
    /\ InUserCode
    /\ ~rv[r].destroyed
    /\ Commit(destroy_rendezvous(St, r))
    /\ UNCHANGED << nev, pc >>

\* The fd wrappers of the program.  w exists when fdst.p[w] is not -1.
\* fd w(value): each descriptor the program opens is wrapped once; -EBADF
\* gives a wrapper of no descriptor.
FdNew(w, i) ==
    /\ pc = "idle"
    /\ fdst.p[w] = 0 - 1
    /\ ~fdst.imp[i].made
    /\ \A j \in Imps : j < i => fdst.imp[j].made
    /\ \E value \in { i + 2, 0 - EBADF } : Commit(fd_new(St, w, value, i))
    /\ UNCHANGED << nev, pc >>

\* fd w(other)
FdCopy(w, other) ==
    /\ pc = "idle"
    /\ fdst.p[w] = 0 - 1 /\ fdst.p[other] # 0 - 1
    /\ Commit(fd_copy(St, w, other))
    /\ UNCHANGED << nev, pc >>

\* w = other
FdAssign(w, other) ==
    /\ pc = "idle"
    /\ fdst.p[w] # 0 - 1 /\ fdst.p[other] # 0 - 1
    /\ Commit(fd_assign(St, w, other))
    /\ UNCHANGED << nev, pc >>

\* w goes out of scope
FdDestroy(w) ==
    /\ pc = "idle"
    /\ fdst.p[w] # 0 - 1
    /\ Commit(fd_destroy(St, w))
    /\ UNCHANGED << nev, pc >>

\* w.close()
FdClose(w) ==
    /\ pc = "idle"
    /\ fdst.p[w] # 0 - 1
    /\ Commit(fd_close(St, w))
    /\ UNCHANGED << nev, pc >>

\* w.at_close(e), e an event not given to at_close before
FdAtClose(w, e) ==
    /\ pc = "idle"
    /\ fdst.p[w] # 0 - 1
    /\ e <= nev /\ ev[e].facades > 0
    /\ fdst.atc_imp[e] = 0 - 1
    /\ Commit(fd_at_close(St, w, e))
    /\ UNCHANGED << nev, pc >>

\* w.read(buf, size, done) or w.write(buf, size, done)
FdIo(w, dir) ==
    /\ pc = "idle"
    /\ fdst.p[w] > 0 /\ fd_valid(St, w)
    /\ \E o \in Ops, size \in 1..MaxSize :
          /\ fdst.op[o].state = "none"
          /\ \A k \in Ops : k < o => fdst.op[k].state # "none"
          /\ Commit(fd_io(St, w, dir, size, o))
    /\ UNCHANGED << nev, pc >>

\* The descriptor of the call that holds a mutex is ready.
FdIoStep(o) ==
    /\ pc = "idle"
    /\ fdst.op[o].state = "holding"
    /\ \E n \in 0..fdst.op[o].left : Commit(fd_io_step(St, o, n))
    /\ UNCHANGED << nev, pc >>

\* An operation in progress on a wrapped descriptor keeps the fdimp, not the
\* descriptor, alive.
FdWeakUse(w) ==
    /\ pc = "idle"
    /\ fdst.p[w] > 0
    /\ fdst.imp[fdst.p[w]]._weak_refcount < MaxWeak
    /\ Commit(fdimp_weak_use(St, fdst.p[w]))
    /\ UNCHANGED << nev, pc >>

FdWeakUnuse(i) ==
    /\ pc = "idle"
    /\ fdst.imp[i]._weak_refcount > 0
    /\ Commit(fdimp_weak_unuse(St, i))
    /\ UNCHANGED << nev, pc >>

\* The last wrapper of an open descriptor goes out of scope, and a callback
\* that close() runs gives up a weak reference.
FdDestroyWeakInClose(w) ==
    /\ pc = "idle"
    /\ fdst.p[w] > 0
    /\ fdst.imp[fdst.p[w]]._refcount = 1
    /\ fdst.imp[fdst.p[w]].fd >= 0
    /\ fdst.imp[fdst.p[w]]._weak_refcount > 0
    /\ \E zero \in BOOLEAN :
          Commit([fdimp_unuse_weak_in_close(St, fdst.p[w], zero) EXCEPT !.fdst.p[w] = 0 - 1])
    /\ UNCHANGED << nev, pc >>

\* The program copies one of its handles on e (event<> copy: use).
CopyFacade(e) ==
    /\ InUserCode
    /\ e <= nev /\ ev[e].facades > 0 /\ ev[e].facades < MaxFacades
    /\ Commit([use(St, e) EXCEPT !.ev[e].facades = @ + 1])
    /\ UNCHANGED << nev, pc >>

\* One of the program's handles on e is destroyed (event<> destructor: unuse).
DropFacade(e) ==
    /\ InUserCode
    /\ e <= nev /\ ev[e].facades > 0
    /\ Commit(unuse([St EXCEPT !.ev[e].facades = @ - 1], e))
    /\ UNCHANGED << nev, pc >>

\* main calls a tamed function: its closure starts to run.
StartTask(c) ==
    /\ pc = "idle" /\ NoRunning
    /\ closure[c].st = "idle"
    /\ closure' = [closure EXCEPT ![c].st = "running"]
    /\ UNCHANGED << ev, nev, rv, unblocked, unblocked_ptail, store, fault, pc,
                    hookfired, hooklog, fdst, ready_order, unblock_order, drv, sig, os, turn, fired >>

\* twait: the running task found nothing to consume on its rendezvous (join
\* returned false, or the gather rendezvous still has events waiting), blocks
\* and returns from its activator.  The task's first twait is at position 1,
\* the twait it reaches after a resumption at position 2.
Block(c, r) ==
    /\ Running(c)
    /\ owner(r) = c
    /\ ~rv[r].destroyed
    /\ IF rv[r].rtype_ = rexplicit THEN rv[r].ready_ = 0 ELSE rv[r].waiting_ # 0
    /\ LET position == IF closure[c].tamer_block_position_ = 0 THEN 1 ELSE 2
           s == block(St, r, c, position)
       IN Commit([s EXCEPT !.closure[c].st = "parked", !.closure[c].asked = position])
    /\ UNCHANGED << nev, pc >>

\* The tasks compiled with debugging: their closures are tamer_debug_closure.
DebugClosures == {2}

\* twait in a task compiled with debugging: as Block, through the overload
\* for debug closures, with the line of the twait.
BlockDebug(c, r) ==
    /\ Running(c)
    /\ owner(r) = c
    /\ ~rv[r].destroyed
    /\ IF rv[r].rtype_ = rexplicit THEN rv[r].ready_ = 0 ELSE rv[r].waiting_ # 0
    /\ LET position == IF closure[c].tamer_block_position_ = 0 THEN 1 ELSE 2
           s == block_debug(St, r, c, position, 10 * position)
       IN Commit([s EXCEPT !.closure[c].st = "parked", !.closure[c].asked = position])
    /\ UNCHANGED << nev, pc >>

\* The running task calls r.block(c, position) without having looked at r's
\* ready queue, and returns from its activator.
BlockUnchecked(c, r) ==
    /\ Running(c)
    /\ owner(r) = c
    /\ ~rv[r].destroyed
    /\ rv[r].rtype_ = rexplicit
    /\ LET position == IF closure[c].tamer_block_position_ = 0 THEN 1 ELSE 2
           s == IF c \in DebugClosures
                THEN block_debug(St, r, c, position, 10 * position)
                ELSE block(St, r, c, position)
       IN Commit([s EXCEPT !.closure[c].st = "parked", !.closure[c].asked = position])
    /\ UNCHANGED << nev, pc >>

\* The running task finishes.
Return(c) ==
    /\ Running(c)
    /\ closure' = [closure EXCEPT ![c].st = "done"]
    /\ UNCHANGED << ev, nev, rv, unblocked, unblocked_ptail, store, fault, pc,
                    hookfired, hooklog, fdst, ready_order, unblock_order, drv, sig, os, turn, fired >>

\* One iteration of the driver's rendezvous drain: pop the head of the
\* unblocked FIFO and run it.
run_unblocked(s) ==
    LET p == pop_unblocked(s)
        s1 == run(p.s, p.r)
    IN [s1 EXCEPT !.unblock_order = SelectSeq(@, LAMBDA q : q # p.r)]

\* The driver's rendezvous loop on its own, one iteration: what a turn does
\* for a program that registers nothing with the driver.
Resume ==
    /\ pc = "idle"
    /\ NoRunning
    /\ unblocked # 0
    /\ Commit(run_unblocked(St))
    /\ UNCHANGED << nev, pc >>

\* The number of events the driver holds.
held(s) ==
    Len(s.drv._asap) + s.drv._nt
    + Cardinality({ i \in DOMAIN s.drv._fd : s.drv._fd[i] # 0 })
    + Cardinality({ g \in Signals : s.sig.sig_handlers[g] # 0 })

\* at_asap(e)
AtAsap(e) ==
    /\ InUserCode
    /\ e <= nev /\ ev[e].facades > 0
    /\ held(at_asap(St, e)) <= MaxHeld
    /\ Commit(at_asap(St, e))
    /\ UNCHANGED << nev, pc >>

\* at_fd_read(fd, e), at_fd_write(fd, e)
AtFd(fd, write, e) ==
    /\ InUserCode
    /\ e <= nev /\ ev[e].facades > 0
    /\ held(at_fd(St, fd, write, e)) <= MaxHeld
    /\ Commit(at_fd(St, fd, write, e))
    /\ UNCHANGED << nev, pc >>

\* at_time(expiry, e), with at most max events held by the driver
AtTimeUpTo(expiry, e, max) ==
    /\ InUserCode
    /\ e <= nev /\ ev[e].facades > 0
    /\ held(at_time(St, expiry, e)) <= max
    /\ Commit(at_time(St, expiry, e))
    /\ UNCHANGED << nev, pc >>

AtTime(expiry, e) == AtTimeUpTo(expiry, e, MaxHeld)

\* The driver repositions the timer at pos, whose expiry has become expiry:
\* timer_reheapify_from(pos, t, false).
ReheapifyFrom(pos, expiry) ==
    /\ pc = "idle"
    /\ pos < drv._nt
    /\ LET t == [drv._t[pos + 1] EXCEPT !.expiry = expiry]
       IN Commit([St EXCEPT !.drv._t = timer_reheapify_from(drv._t, drv._nt, pos, t)])
    /\ UNCHANGED << nev, pc >>

\* at_signal(g, e)
AtSignal(g, e) ==
    /\ InUserCode
    /\ e <= nev /\ ev[e].facades > 0
    /\ \E p \in PipeFds : /\ held(at_signal(St, g, e, p)) <= MaxHeld
                          /\ Commit(at_signal(St, g, e, p))
    /\ UNCHANGED << nev, pc >>

\* Signal g arrives while it is not blocked and the handler is installed.
\* SA_RESETHAND puts the default action back before the handler runs; the
\* mask is as before once the handler has returned.  A read
\* waiting on the empty pipe is interrupted and fails; the loop around it
\* ends.
SignalDeliver(g) ==
    /\ os.sa_handler[g] = "tame_signal_handler"
    /\ g \notin os.blocked
    /\ os.pipe_bytes < MaxPipe
    /\ Commit(signal_delivery(St, g))
    /\ pc' = IF pc = "sigread" /\ os.pipe_bytes = 0 THEN after_phase("sigread") ELSE pc
    /\ UNCHANGED nev

\* Signal g arrives while it is not blocked and its action is the default
\* one: the default action is taken; the program's data are not touched.
SignalDefault(g) ==
    /\ os.sa_handler[g] = "SIG_DFL"
    /\ g \notin os.blocked
    /\ ~os.default_taken[g]
    /\ os' = [os EXCEPT !.default_taken[g] = TRUE]
    /\ UNCHANGED << ev, nev, rv, unblocked, unblocked_ptail, closure, store, fault, pc,
                    hookfired, hooklog, fdst, ready_order, unblock_order, drv, sig, turn, fired >>

\* main calls once(): the turn runs up to the call of select.
Once ==
    /\ pc = "idle"
    /\ NoRunning
    /\ Commit(once_prepare(St))
    /\ pc' = "select"
    /\ UNCHANGED nev

\* The errors select can fail with: interrupted by a signal, or a bad
\* descriptor in one of the sets.
SelectErrors == { "EINTR", "EBADF" }

\* select returns: with an error, or with the watched descriptors that are
\* ready, the pipe among them when it is watched and holds a byte.  How long
\* the call waits is left open: it returns at some point.
Select ==
    /\ pc = "select"
    /\ \/ \E err \in SelectErrors :
              \* EINTR: a handler ran while select was waiting
              /\ err = "EINTR" => sig.sig_any_active # 0
              /\ turn' = [turn EXCEPT !.nfds = 0 - 1, !.errno = err, !.discarded = << >>]
       \/ \E R \in SUBSET (turn.rfds \cap Fds), W \in SUBSET turn.wfds :
              LET below(S) == { fd \in S : fd < turn.nfds }
                  P == IF os.pipe_bytes > 0 THEN below({sig.sig_pipe} \cap turn.rfds) ELSE {}
              IN turn' = [turn EXCEPT !.rfds = below(R) \cup P,
                                      !.wfds = below(W),
                                      !.nfds = Cardinality(below(R) \cup P) + Cardinality(below(W)),
                                      !.discarded = << >>]
    /\ pc' = after_phase("select")
    /\ UNCHANGED << ev, nev, rv, unblocked, unblocked_ptail, closure, store, fault,
                    hookfired, hooklog, fdst, ready_order, unblock_order, drv, sig, os, fired >>

\* "run signals": with a signal noted the signal events are triggered, and
\* the rendezvous are run next; with none the turn goes on to the asap events.
RunSignals ==
    /\ pc = "signals"
    /\ IF sig.sig_any_active # 0
       THEN Commit(once_signals(St)) /\ pc' = after_phase("signals")
       ELSE Commit(St) /\ pc' = after_phase("sigread")
    /\ UNCHANGED nev

\* "run closures activated by signals (plus maybe some others)", one
\* iteration; after the last the signals are unblocked.
SigDrain ==
    /\ pc = "sigdrain"
    /\ NoRunning
    /\ IF ~once_drain_done(St)
       THEN Commit(note_fired(run_unblocked(St), "sigresume")) /\ pc' = pc
       ELSE Commit(once_unblock_signals(St)) /\ pc' = after_phase("sigdrain")
    /\ UNCHANGED nev

\* "kill crap data written to pipe": a read that finds bytes takes them (at
\* most 64) and the loop reads again; a read of the empty pipe waits.
SigRead ==
    /\ pc = "sigread"
    /\ os.pipe_bytes > 0
    /\ os' = [os EXCEPT !.pipe_bytes = IF @ > 64 THEN @ - 64 ELSE 0]
    /\ UNCHANGED << ev, nev, rv, unblocked, unblocked_ptail, closure, store, fault, pc,
                    hookfired, hooklog, fdst, ready_order, unblock_order, drv, sig, turn, fired >>

\* History: asap0 is the asap array as the asap phase found it, kept until
\* the descriptor phase has run.
RunAsaps ==
    /\ pc = "asap"
    /\ Commit([once_asap(St) EXCEPT !.turn.asap0 = drv._asap])
    /\ pc' = after_phase("asap")
    /\ UNCHANGED nev

RunFds ==
    /\ pc = "fds"
    /\ Commit([once_fds(St) EXCEPT !.turn.asap0 = << >>])
    /\ pc' = after_phase("fds")
    /\ UNCHANGED nev

\* gettimeofday reads a clock that has not gone back since it was last read
\* and shows max at most.
RunTimersUpTo(max) ==
    /\ pc = "timers"
    /\ \E d \in 0..(max - os.clock) :
           LET s == once_timers([St EXCEPT !.os.clock = @ + d])
           IN Commit([s EXCEPT !.turn.drain0 = UnblockedList(s)])
    /\ pc' = after_phase("timers")
    /\ UNCHANGED nev

RunTimers == RunTimersUpTo(MaxTime)

\* "run active closures", one iteration; after the last once() returns.
Drain ==
    /\ pc = "drain"
    /\ NoRunning
    /\ IF ~once_drain_done(St)
       THEN Commit([note_fired(run_unblocked(St), "resume") EXCEPT !.turn.expired = << >>])
            /\ pc' = pc
       ELSE Commit([St EXCEPT !.fired = << >>, !.turn = NoLocals]) /\ pc' = after_phase("drain")
    /\ UNCHANGED nev

\* Events, rendezvous and tasks; the events carry no slots here.
Next ==
    \/ \E r \in Rendezvous : MakeEvent(r, FALSE)
    \/ \E e \in Events, v \in Values : Trigger(e, v)
    \/ \E e \in Events : Cancel(e)
    \/ \E x \in Events, at_e \in Events : AtTriggerE(x, at_e)
    \/ \E r \in Rendezvous : Join(r)
    \/ \E c \in Closures : StartTask(c)
    \/ \E c \in Closures, r \in Rendezvous : Block(c, r)
    \/ \E c \in Closures : Return(c)
    \/ Resume

Spec == Init /\ [][Next]_vars

\* One gather and one explicit rendezvous.
InitSlots == Init /\ rv[1].rtype_ = rgather /\ rv[2].rtype_ = rexplicit

\* A program that registers its events with the driver and calls once(); it
\* makes its events on its rendezvous in rotation.
NextDriver ==
    \/ MakeEvent((nev % Cardinality(Rendezvous)) + 1, FALSE)
    \/ \E e \in Events, v \in Values : Trigger(e, v)
    \/ \E e \in Events : AtAsap(e)
    \/ \E fd \in Fds, write \in {0, 1}, e \in Events : AtFd(fd, write, e)
    \/ \E expiry \in 0..MaxTime, e \in Events : AtTime(expiry, e)
    \/ \E g \in Signals, e \in Events : AtSignal(g, e)
    \/ \E c \in Closures : StartTask(c)
    \/ \E c \in Closures, r \in Rendezvous : Block(c, r)
    \/ \E c \in Closures : Return(c)
    \/ \E g \in Signals : SignalDeliver(g)
    \/ Once
    \/ Select
    \/ RunSignals
    \/ SigDrain
    \/ SigRead
    \/ RunAsaps
    \/ RunFds
    \/ RunTimers
    \/ Drain

SpecDriver == InitSlots /\ [][NextDriver]_vars

\* Events with slots and function hooks, completed by trigger and by cancel;
\* the program makes its events on its rendezvous in rotation.
NextSlots ==
    \/ \E slotted \in BOOLEAN : MakeEvent((nev % Cardinality(Rendezvous)) + 1, slotted)
    \/ \E e \in Events, v \in Values : Trigger(e, v)
    \/ \E e \in Events : Cancel(e)
    \/ \E e \in Events : AtTriggerF(e)
    \/ \E c \in Closures : StartTask(c)
    \/ \E c \in Closures, r \in Rendezvous : Block(c, r)

SpecSlots == InitSlots /\ [][NextSlots]_vars

\* Handles on events are copied and destroyed; events carry function hooks;
\* the program makes its events on its rendezvous in rotation.
NextRefs ==
    \/ MakeEvent((nev % Cardinality(Rendezvous)) + 1, FALSE)
    \/ \E e \in Events : CopyFacade(e)
    \/ \E e \in Events : DropFacade(e)
    \/ \E e \in Events, v \in Values : Trigger(e, v)
    \/ \E e \in Events : Cancel(e)
    \/ \E e \in Events : AtTriggerF(e)
    \/ \E r \in Rendezvous : Join(r)
    \/ \E c \in Closures : StartTask(c)
    \/ \E c \in Closures, r \in Rendezvous : Block(c, r)

SpecRefs == InitSlots /\ [][NextRefs]_vars

\* Rendezvous are cleared and destroyed with events still armed on them; the
\* events carry function hooks and event hooks, and are made on the first
\* rendezvous still there.
NextLife ==
    \/ \E r \in Rendezvous :
           (\A q \in Rendezvous : q < r => rv[q].destroyed) /\ MakeEvent(r, FALSE)
    \/ \E e \in Events : AtTriggerF(e)
    \/ \E x \in Events, at_e \in Events : AtTriggerE(x, at_e)
    \/ \E e \in Events, v \in Values : Trigger(e, v)
    \/ \E c \in Closures : StartTask(c)
    \/ \E c \in Closures, r \in Rendezvous : Block(c, r)
    \/ \E r \in Rendezvous : Clear(r)
    \/ \E r \in Rendezvous : Destroy(r)

SpecLife == InitSlots /\ [][NextLife]_vars

\* A program that wraps descriptors and copies, assigns, closes and destroys
\* the wrappers.
NextFd ==
    \/ \E w \in Wrappers, i \in Imps : FdNew(w, i)
    \/ \E w \in Wrappers, other \in Wrappers : FdCopy(w, other)
    \/ \E w \in Wrappers, other \in Wrappers : FdAssign(w, other)
    \/ \E w \in Wrappers : FdDestroy(w)
    \/ \E w \in Wrappers : FdClose(w)
    \/ \E w \in Wrappers : FdWeakUse(w)
    \/ \E i \in Imps : FdWeakUnuse(i)

SpecFd == InitSlots /\ [][NextFd]_vars

\* The same program, with weak references that callbacks of close() hold.
NextFdWeak ==
    \/ \E w \in Wrappers, i \in Imps : FdNew(w, i)
    \/ \E w \in Wrappers, other \in Wrappers : FdCopy(w, other)
    \/ \E w \in Wrappers, other \in Wrappers : FdAssign(w, other)
    \/ \E w \in Wrappers : FdDestroy(w)
    \/ \E w \in Wrappers : FdClose(w)
    \/ \E w \in Wrappers : FdWeakUse(w)
    \/ \E i \in Imps : FdWeakUnuse(i)
    \/ \E w \in Wrappers : FdDestroyWeakInClose(w)

SpecFdWeak == InitSlots /\ [][NextFdWeak]_vars

\* A program that reads and writes through its wrappers.
NextFdIo ==
    \/ \E i \in Imps : FdNew(i, i)
    \/ \E other \in Wrappers : FdCopy(MaxWrappers, other)
    \/ \E w \in Wrappers : FdIo(w, "r")
    \/ \E w \in Wrappers : FdIo(w, "w")
    \/ \E o \in Ops : FdIoStep(o)

SpecFdIo == InitSlots /\ [][NextFdIo]_vars

\* A program that registers close notifiers on its wrappers.
NextFdClose ==
    \/ MakeEvent((nev % Cardinality(Rendezvous)) + 1, FALSE)
    \/ \E i \in Imps : FdNew(i, i)
    \/ \E other \in Wrappers : FdCopy(MaxWrappers, other)
    \/ \E w \in Wrappers : FdDestroy(w)
    \/ \E w \in Wrappers : FdClose(w)
    \/ \E w \in Wrappers, e \in Events : FdAtClose(w, e)

SpecFdClose == InitSlots /\ [][NextFdClose]_vars

\* A program that arms events on its rendezvous and triggers and cancels
\* them in any order.
NextLinks ==
    \/ \E r \in Rendezvous : MakeEventUpTo(r, FALSE, MaxLinked)
    \/ \E e \in Events, v \in Values : Trigger(e, v)
    \/ \E e \in Events : Cancel(e)

SpecLinks == InitSlots /\ [][NextLinks]_vars

\* Tasks that block and are resumed; task 2 is compiled with debugging.
NextBlock ==
    \/ \E r \in Rendezvous : MakeEvent(r, FALSE)
    \/ \E e \in Events, v \in Values : Trigger(e, v)
    \/ \E r \in Rendezvous : Join(r)
    \/ \E c \in Closures : StartTask(c)
    \/ \E c \in Closures \ DebugClosures, r \in Rendezvous : Block(c, r)
    \/ \E c \in DebugClosures, r \in Rendezvous : BlockDebug(c, r)
    \/ \E c \in Closures : Return(c)
    \/ Resume

SpecBlock == InitSlots /\ [][NextBlock]_vars

\* Tasks that wake each other: the program registers asap events and calls
\* once(); a task that is resumed may trigger the event another task waits for.
NextDrain ==
    \/ MakeEvent((nev % Cardinality(Rendezvous)) + 1, FALSE)
    \/ \E e \in Events, v \in Values : Trigger(e, v)
    \/ \E e \in Events : AtAsap(e)
    \/ \E c \in Closures : StartTask(c)
    \/ \E c \in Closures, r \in Rendezvous : Block(c, r)
    \/ \E c \in Closures : Return(c)
    \/ Once
    \/ Select
    \/ RunSignals
    \/ RunAsaps
    \/ RunFds
    \/ RunTimers
    \/ Drain

SpecDrain == InitSlots /\ [][NextDrain]_vars

\* A program that schedules timers, cancels some of their events and calls
\* once().
NextTimers ==
    \/ MakeEvent((nev % Cardinality(Rendezvous)) + 1, FALSE)
    \/ \E e \in Events : Cancel(e)
    \/ \E expiry \in 0..MaxExpiry, e \in Events : AtTimeUpTo(expiry, e, MaxTimers)
    \/ \E pos \in 0..(MaxTimers - 1), expiry \in 0..MaxExpiry : ReheapifyFrom(pos, expiry)
    \/ Once
    \/ Select
    \/ RunSignals
    \/ RunAsaps
    \/ RunFds
    \/ RunTimersUpTo(MaxExpiry)
    \/ Drain

SpecTimers == InitSlots /\ [][NextTimers]_vars

\* As NextBlock, with a task that may block on its explicit rendezvous
\* without joining first.
NextBlockUnchecked ==
    \/ NextBlock
    \/ \E c \in Closures, r \in Rendezvous : BlockUnchecked(c, r)

SpecBlockUnchecked == InitSlots /\ [][NextBlockUnchecked]_vars

\* Events get several function hooks while armed and are then triggered,
\* cancelled or dropped.
NextHooks ==
    \/ \E r \in Rendezvous : MakeEvent(r, FALSE)
    \/ \E x \in Events, h \in Events : AtTriggerNext(x, h)
    \/ \E e \in Events, v \in Values : Trigger(e, v)
    \/ \E e \in Events : Cancel(e)
    \/ \E e \in Events : DropFacade(e)
    \/ \E r \in Rendezvous : Join(r)

SpecHooks == InitSlots /\ [][NextHooks]_vars

\* A program that waits for signals: it registers events with at_signal and
\* calls once(); signals arrive whenever they are not blocked.
NextSignals ==
    \/ MakeEvent((nev % Cardinality(Rendezvous)) + 1, FALSE)
    \/ \E g \in Signals, e \in Events : AtSignal(g, e)
    \/ \E c \in Closures : StartTask(c)
    \/ \E c \in Closures, r \in Rendezvous : Block(c, r)
    \/ \E c \in Closures : Return(c)
    \/ \E g \in Signals : SignalDeliver(g)
    \/ \E g \in Signals : SignalDefault(g)
    \/ Once
    \/ Select
    \/ RunSignals
    \/ SigDrain
    \/ SigRead
    \/ RunAsaps
    \/ RunFds
    \/ RunTimers
    \/ Drain

SpecSignals == InitSlots /\ [][NextSignals]_vars

\* A program that watches descriptors 0..MaxFd in both directions, completes
\* events itself, and calls once().
NextFdTable ==
    \/ MakeEvent((nev % Cardinality(Rendezvous)) + 1, FALSE)
    \/ \E e \in Events, v \in Values : Trigger(e, v)
    \/ \E e \in Events : Cancel(e)
    \/ \E fd \in 0..MaxFd, write \in {0, 1}, e \in Events : AtFd(fd, write, e)
    \/ Once
    \/ Select
    \/ RunSignals
    \/ RunAsaps
    \/ RunFds
    \/ RunTimers
    \/ Drain

SpecFdTable == InitSlots /\ [][NextFdTable]_vars

\* A program that makes its events on any of its rendezvous, registers them
\* as asap events and calls once().
NextAsap ==
    \/ \E r \in Rendezvous : MakeEvent(r, FALSE)
    \/ \E e \in Events, v \in Values : Trigger(e, v)
    \/ \E e \in Events : AtAsap(e)
    \/ \E r \in Rendezvous : Join(r)
    \/ \E c \in Closures : StartTask(c)
    \/ \E c \in Closures : Return(c)
    \/ Once
    \/ Select
    \/ RunSignals
    \/ RunAsaps
    \/ RunFds
    \/ RunTimers
    \/ Drain

SpecAsap == InitSlots /\ [][NextAsap]_vars

\* The descriptors tried: 0, the largest int, and on either side of every
\* power of two between.
ExpandFds == {0} \cup { 2 ^ k - 1 : k \in 3..(IntBits - 1) } \cup { 2 ^ k : k \in 3..(IntBits - 2) }

\* A program that registers events on descriptors of any size an int
\* holds, for as long as at_fd returns and stays within the table.
NextExpand ==
    \/ MakeEvent((nev % Cardinality(Rendezvous)) + 1, FALSE)
    \/ /\ fault = "none"
       /\ \E fd \in ExpandFds, write \in {0, 1}, e \in Events : AtFd(fd, write, e)

SpecExpand == InitSlots /\ [][NextExpand]_vars

\* select is bound to return: it was given a budget (zero or the time to the
\* first timer), or the pipe holds a byte and select was asked about it (in
\* the read set and below the descriptor count).
select_returns(s) ==
    \/ s.turn.to >= 0
    \/ /\ s.os.pipe_bytes > 0
       /\ s.sig.sig_pipe \in s.turn.rfds
       /\ s.sig.sig_pipe < s.turn.nfds

\* A program that watches a descriptor and signals, and whose main loop
\* calls once() again and again while signals arrive at any moment.
NextWake ==
    \/ MakeEvent((nev % Cardinality(Rendezvous)) + 1, FALSE)
    \/ \E fd \in Fds, e \in Events : AtFd(fd, 0, e)
    \/ \E g \in Signals, e \in Events : AtSignal(g, e)
    \/ \E c \in Closures : StartTask(c)
    \/ \E c \in Closures, r \in Rendezvous : Block(c, r)
    \/ \E c \in Closures : Return(c)
    \/ \E g \in Signals : SignalDeliver(g)
    \/ Once
    \/ Select
    \/ RunSignals
    \/ SigDrain
    \/ SigRead
    \/ RunAsaps
    \/ RunFds
    \/ RunTimers
    \/ Drain

\* Scheduling: main calls once() whenever it is in its loop, every phase of
\* once() that can go on does, a read of a pipe that holds bytes returns,
\* select returns when it is bound to, and a running task reaches its end.
\* Nothing makes a signal arrive, a descriptor become ready, or select return
\* early.
FairWake ==
    /\ WF_vars(Once)
    /\ WF_vars(Select /\ select_returns(St))
    /\ WF_vars(RunSignals)
    /\ WF_vars(SigDrain)
    /\ WF_vars(SigRead)
    /\ WF_vars(RunAsaps)
    /\ WF_vars(RunFds)
    /\ WF_vars(RunTimers)
    /\ WF_vars(Drain)
    /\ \A c \in Closures : WF_vars(Return(c))

SpecWake == InitSlots /\ [][NextWake]_vars /\ FairWake

(***************************************************************************)
(* Properties                                                              *)
(***************************************************************************)

\* C1: on an explicit rendezvous the ready queue holds the identifiers of
\* the completed events in the order the events were triggered or
\* cancelled, and join returns (and removes) the oldest of them: join
\* returns identifiers in completion order.
C1_JoinInCompletionOrder ==
    \A r \in Rendezvous :
        rv[r].rtype_ = rexplicit =>
            /\ ReadyRids(St, r) = ready_order[r]
            /\ (rv[r].ready_ = 0) = (ready_order[r] = << >>)
            /\ LET j == join(St, r)
               IN IF ready_order[r] = << >>
                  THEN ~j.got /\ j.s = St
                  ELSE /\ j.got
                       /\ j.x = Head(ready_order[r])
                       /\ ReadyRids(j.s, r) = Tail(ready_order[r])

\* Two events of one explicit rendezvous are ready, the one made second
\* completed first.
C1_Witness ==
    \E r \in Rendezvous :
        /\ rv[r].rtype_ = rexplicit
        /\ Len(ready_order[r]) >= 2
        /\ ready_order[r][1] > ready_order[r][2]

\* C2: completing an empty event changes nothing at all (slots, hook
\* counters, ready queues, unblocked FIFO): a second trigger or cancel after
\* a trigger or a cancel is a no-op, and after trigger(v); trigger(w) the
\* slot holds v.
C2_CompleteOnce ==
    \A e \in 1..nev :
        /\ ev[e]._r = 0 =>
              /\ event_cancel(St, e) = St
              /\ \A v \in Values : event_trigger(St, e, v) = St
        /\ LET c1 == event_cancel(St, e)
           IN /\ event_cancel(c1, e) = c1
              /\ \A w \in Values : event_trigger(c1, e, w) = c1
        /\ \A v \in Values :
              LET s1 == event_trigger(St, e, v)
              IN /\ event_cancel(s1, e) = s1
                 /\ \A w \in Values : event_trigger(s1, e, w) = s1
                 /\ (ev[e]._r # 0 /\ ev[e]._t1 # 0) => s1.store[ev[e]._t1] = v

\* An event with a slot and a function hook has been triggered with a task
\* parked on its explicit rendezvous: the slot is written, the hook has run
\* once, the identifier is ready and the rendezvous is queued.
C2_Witness ==
    \E e \in 1..nev :
        /\ ev[e]._r = 0 /\ ev[e]._t1 = e /\ store[e] = 2
        /\ ev[e].at_trigger_f_ # 0 /\ hookfired[e] = 1
        /\ \E r \in Rendezvous : Queued(St, r) /\ e \in Range(ready_order[r])

\* C3: a gather rendezvous is linked onto the unblocked FIFO only by a step
\* that empties its waiting list while a task is parked on it, every such
\* step leaves it on the FIFO, and it is on the FIFO at most once.
C3_GatherUnblockedWhenEmptied ==
    [][ \A r \in Rendezvous :
          rv[r].rtype_ = rgather =>
            /\ (~Queued(St, r) /\ Queued(St, r)') =>
                  /\ rv[r]._blocked_closure # 0
                  /\ rv[r].waiting_ # 0
                  /\ rv'[r].waiting_ = 0
            /\ (rv[r]._blocked_closure # 0 /\ rv[r].waiting_ # 0 /\ rv'[r].waiting_ = 0) =>
                  Queued(St, r)'
            /\ Len(SelectSeq(UnblockedList(St), LAMBDA q : q = r))' <= 1
      ]_vars

\* A gather rendezvous with a parked task is queued, its waiting list empty.
C3_Witness ==
    \E r \in Rendezvous :
        /\ rv[r].rtype_ = rgather
        /\ Queued(St, r)
        /\ rv[r]._blocked_closure # 0
        /\ rv[r].waiting_ = 0
        /\ nev = MaxEvents

\* The place of each kind of step in a turn.
turn_rank(kind) ==
    CASE kind = "signal" -> 1
      [] kind = "sigresume" -> 2
      [] kind = "asap" -> 3
      [] kind = "fd" -> 4
      [] kind = "timer" -> 5
      [] kind = "resume" -> 6

\* C4: within one turn of once() the signal events are triggered before the
\* asap events, the asap events before the descriptor events, the descriptor
\* events before the timer events; parked tasks are resumed in two places
\* only: in the rendezvous loop of signal dispatch, after the signal events
\* and before the asap events, and in the final rendezvous loop, after all
\* four kinds.
C4_TurnOrder ==
    \A i, j \in DOMAIN fired : i < j => turn_rank(fired[i]) <= turn_rank(fired[j])

\* A turn has triggered a signal event, resumed the task waiting for it,
\* triggered an asap event after that and resumed a second task at its end.
C4_Witness ==
    /\ pc = "drain"
    /\ fired = << "signal", "sigresume", "asap", "resume" >>

\* C4 as stated: in a turn every event the driver triggers (signal, asap,
\* descriptor, timer, in this order) is triggered before any parked task is
\* resumed.
C4_AllBeforeResume ==
    \A i, j \in DOMAIN fired :
        i < j => LET all_last(k) == IF k = "sigresume" THEN turn_rank("resume") ELSE turn_rank(k)
                 IN all_last(fired[i]) <= all_last(fired[j])

\* C5: a step in which an event is completed starts no task and leaves every
\* closure and every parked-task pointer as it was; a parked task starts to
\* run only in a step that pops its rendezvous from the head of the
\* unblocked FIFO and completes no event.
C5_ActivatorOnlyFromRun ==
    [][ /\ (\E e \in Events : ev[e]._r # 0 /\ ev'[e]._r = 0) =>
              /\ closure' = closure
              /\ \A r \in Rendezvous : rv'[r]._blocked_closure = rv[r]._blocked_closure
        /\ \A c \in Closures :
              (closure[c].st = "parked" /\ closure'[c].st = "running") =>
                  /\ unblocked # 0
                  /\ rv[unblocked]._blocked_closure = c
                  /\ unblocked' = rv[unblocked].unblocked_next_
                  /\ rv'[unblocked]._blocked_closure = 0
                  /\ ev' = ev /\ store' = store /\ hookfired' = hookfired
                  /\ ready_order' = ready_order
      ]_vars

\* An event's hook has triggered a second event whose rendezvous has a task
\* parked: the rendezvous is queued and the task is still parked.
C5_Witness ==
    \E x \in 1..nev, r \in Rendezvous :
        /\ ev[x]._r = 0 /\ ev[x].at_trigger_ # 0 /\ ev[x].at_trigger_f_ = 0
        /\ ev[ev[x].at_trigger_]._r = 0
        /\ Queued(St, r)
        /\ closure[rv[r]._blocked_closure].st = "parked"

\* C6: a rendezvous leaves the unblocked FIFO only by having its task
\* re-entered, which happens only in a rendezvous loop of once() -- the one
\* of signal dispatch or the final one -- and once() returns only with the
\* FIFO empty: every rendezvous a trigger appends is re-entered in one of
\* the two loops of the turn in which it was appended, or of the next turn if
\* it was appended outside a turn.
C6_QueuedAreResumed ==
    [][ /\ (pc # "idle" /\ pc' = "idle") => (unblocked = 0 /\ unblocked' = 0)
        /\ \A r \in Rendezvous :
              (Queued(St, r) /\ ~Queued(St, r)') =>
                  /\ pc \in {"sigdrain", "drain"}
                  /\ unblocked = r
                  /\ rv[r]._blocked_closure # 0
                  /\ closure[rv[r]._blocked_closure].st = "parked"
                  /\ closure'[rv[r]._blocked_closure].st = "running"
        /\ \A c \in Closures :
              (closure[c].st = "parked" /\ closure'[c].st = "running") =>
                  pc \in {"sigdrain", "drain"}
      ]_vars

\* Two rendezvous were queued when the final loop began; the task of the
\* first has been re-entered and runs, the second is still queued.
C6_Witness ==
    /\ pc = "drain"
    /\ fired = << "resume" >>
    /\ \E c \in Closures : Running(c)
    /\ unblocked # 0

\* C6 as stated: a task is re-entered only in the final rendezvous loop
\* (phase 8) of a turn.
C6_ResumedInLastPhase ==
    [][ \A c \in Closures :
            (closure[c].st = "parked" /\ closure'[c].st = "running") => pc = "drain" ]_vars

\* C7: the unblocked FIFO holds the rendezvous in the order they became
\* ready with a task parked, and the task that is resumed is always the one
\* parked on the rendezvous that became ready first.
C7_ResumedInReadyOrder ==
    /\ [](UnblockedList(St) = unblock_order)
    /\ [][ \A c \in Closures :
             (closure[c].st = "parked" /\ closure'[c].st = "running") =>
                 /\ unblock_order # << >>
                 /\ rv[Head(unblock_order)]._blocked_closure = c
                 /\ unblock_order' = Tail(unblock_order)
         ]_vars

\* Rendezvous 2 became ready before rendezvous 1; its task has been resumed
\* and runs while the task of rendezvous 1 is still queued.
C7_Witness ==
    /\ unblock_order = << 1 >>
    /\ closure[1].st = "parked"
    /\ closure[2].st = "running" /\ closure[2].tamer_block_position_ # 0

\* C8: the unblocked FIFO is a well-formed list without repetition, its tail
\* pointer addresses its last link, it holds exactly the rendezvous that
\* have a parked task and are not marked with the sentinel, and unblock()
\* on a queued rendezvous or on one without a parked task changes nothing.
C8_UnblockedNoDuplicates ==
    LET L == UnblockedList(St)
    IN /\ Len(L) <= Cardinality(Rendezvous)
       /\ \A i, j \in 1..Len(L) : L[i] = L[j] => i = j
       /\ unblocked_ptail = IF L = << >> THEN UnblockedLoc ELSE UnblockedNextLoc(L[Len(L)])
       /\ \A r \in Rendezvous :
             /\ Queued(St, r) <=>
                   (rv[r]._blocked_closure # 0 /\ rv[r].unblocked_next_ # unblocked_sentinel)
             /\ (Queued(St, r) \/ rv[r]._blocked_closure = 0) => unblock(St, r) = St

\* A queued rendezvous has had a second event completed since it was
\* queued: unblock() was called on it while it was queued.
C8_Witness ==
    \E r \in Rendezvous :
        /\ rv[r].rtype_ = rexplicit
        /\ Queued(St, r)
        /\ Len(ready_order[r]) = 2

\* C9: a rendezvous records a parked task exactly while its task is parked,
\* never while the task runs (run() has cleared the pointer before the
\* activator is entered), and the assertion of block() has never failed.
C9_OneParkedTask ==
    /\ fault = "none"
    /\ \A r \in Rendezvous :
          /\ rv[r]._blocked_closure \in {0, owner(r)}
          /\ (rv[r]._blocked_closure = owner(r)) <=> (closure[owner(r)].st = "parked")

\* A task has been resumed and has blocked again on its rendezvous.
C9_Witness ==
    \E c \in Closures :
        /\ closure[c].st = "parked"
        /\ closure[c].tamer_block_position_ = 2
        /\ rv[c]._blocked_closure = c

\* C10: cancel writes no slot, neither does a trigger after it; it empties
\* the event and acts on the rendezvous, the ready queue, the unblocked FIFO
\* and the hooks exactly as a trigger does.
C10_CancelKeepsSlots ==
    \A e \in 1..nev :
        LET c1 == event_cancel(St, e)
        IN /\ c1.store = store
           /\ c1.ev[e]._r = 0
           /\ \A v \in Values :
                 /\ event_trigger(c1, e, v).store = store
                 /\ c1 = [event_trigger(St, e, v) EXCEPT !.store = store]

\* An event with a slot has been cancelled (it is empty and its slot was
\* never written); a gather rendezvous with a parked task is queued.
C10_Witness ==
    \E e \in 1..nev :
        /\ ev[e]._r = 0 /\ ev[e]._t1 = e /\ store[e] = 0
        /\ \E r \in Rendezvous : rv[r].rtype_ = rgather /\ Queued(St, r)

\* C11: an event is freed only by the step whose decrement brings its count
\* to zero, when no handle refers to it any more; if it was still armed, that
\* step first cancels it: the event is empty and out of its rendezvous's
\* waiting list, and the rendezvous, its ready queue, the unblocked FIFO and
\* the hooks are as event_cancel() leaves them.  No waiting list ever
\* contains a freed event.
C11_UnuseCancelsBeforeFree ==
    [][ /\ \A e \in Events :
              (ev'[e].deleted /\ ~ev[e].deleted) =>
                  /\ ev[e]._refcount = 1
                  /\ ev'[e].facades = 0
                  /\ ev'[e]._r = 0
                  /\ ev[e]._r # 0 =>
                        LET c == event_cancel(St, e)
                        IN /\ rv' = c.rv
                           /\ unblocked' = c.unblocked
                           /\ unblocked_ptail' = c.unblocked_ptail
                           /\ ready_order' = c.ready_order
                           /\ unblock_order' = c.unblock_order
                           /\ hookfired' = c.hookfired
        /\ \A e \in Events :
              (~ev[e].deleted /\ ev[e]._refcount > 1) => ~ev'[e].deleted
        /\ (\A r \in Rendezvous : \A e \in Range(WaitingList(St, r)) : ~ev[e].deleted)'
      ]_vars

\* An event armed on the explicit rendezvous lost its last handle: it was
\* cancelled, which put it on the ready queue, and then freed.
C11_Witness ==
    \E e \in Events :
        /\ ev[e].deleted
        /\ ev[e]._r = 0
        /\ \E r \in Rendezvous :
               /\ ready_order[r] # << >>
               /\ e \in Range(WalkEvents(St, rv[r].ready_, MaxLinked + 1))

\* C12: the step that clears or destroys a rendezvous leaves every event
\* that was armed on it empty and the waiting list empty; a function hook
\* of such an event has run exactly once more, an event hook has been
\* completed, and no slot was written (values = false); no event ever points
\* to a destroyed rendezvous.
C12_RemovedEventsCancelled ==
    [][ /\ \A r \in Rendezvous :
              (rv'[r].destroyed # rv[r].destroyed \/ rv'[r].clears # rv[r].clears) =>
                  /\ rv'[r].waiting_ = 0
                  /\ store' = store
                  /\ \A e \in Events :
                        ev[e]._r = r =>
                            /\ ev'[e]._r = 0
                            /\ (ev[e].at_trigger_ # 0 /\ ev[e].at_trigger_f_ # 0) =>
                                  hookfired'[ev[e].at_trigger_] = hookfired[ev[e].at_trigger_] + 1
                            /\ (ev[e].at_trigger_ # 0 /\ ev[e].at_trigger_f_ = 0) =>
                                  ev'[ev[e].at_trigger_]._r = 0
        /\ (\A r \in Rendezvous : rv[r].destroyed =>
                /\ rv[r].waiting_ = 0
                /\ \A e \in Events : ev[e]._r # r)'
      ]_vars

\* A rendezvous was destroyed with an event armed on it whose function hook
\* then ran.
C12_Witness ==
    \E r \in Rendezvous, e \in Events :
        /\ rv[r].destroyed
        /\ e <= nev
        /\ ev[e]._r = 0
        /\ ev[e].at_trigger_ = e /\ ev[e].at_trigger_f_ # 0
        /\ hookfired[e] = 1
        /\ rv[r].rtype_ = rgather
        /\ \A x \in Events : x <= nev => ev[x]._rid = 0

\* How often x occurs in the sequence q.
Occurrences(q, x) == Cardinality({ i \in DOMAIN q : q[i] = x })

\* C13: a turn entered with an asap event registered polls with a zero wait
\* budget; nothing but the asap phase takes an event out of the asap array;
\* the asap phase leaves the array empty and every event that was in it
\* empty, each one that was still armed having completed exactly once (one
\* more identifier in its explicit rendezvous's completion history).
C13_AsapOnceInItsTurn ==
    [][ /\ (pc = "idle" /\ pc' = "select" /\ Len(drv._asap) > 0) => turn'.to = 0
        /\ pc # "asap" =>
              /\ Len(drv'._asap) >= Len(drv._asap)
              /\ SubSeq(drv'._asap, 1, Len(drv._asap)) = drv._asap
        /\ (pc = "asap" /\ pc' # "asap") =>
              /\ drv'._asap = << >>
              /\ \A i \in DOMAIN drv._asap :
                    LET e == drv._asap[i]
                        r == ev[e]._r
                    IN /\ ev'[e]._r = 0
                       /\ r # 0 => "asap" \in Range(fired')
                       /\ (r # 0 /\ rv[r].rtype_ = rexplicit) =>
                             Occurrences(ready_order'[r], ev[e]._rid)
                                 = Occurrences(ready_order[r], ev[e]._rid) + 1
      ]_vars

\* The asap phase of a turn that polled with a zero budget has just
\* triggered an event and left the array empty.
C13_Witness ==
    /\ pc = "fds"
    /\ turn.to = 0
    /\ drv._asap = << >>
    /\ fired # << >> /\ fired[Len(fired)] = "asap"
    /\ \E e \in Events : e <= nev /\ ev[e]._r = 0 /\ ev[e]._rid # 0
                            /\ Occurrences(ready_order[2], ev[e]._rid) = 1

\* C14: select is asked only about registered descriptors; the descriptor
\* phase triggers only events of descriptors that select reported, and leaves
\* each reported descriptor (below _nfds) out of the registered set with its
\* event empty; a descriptor enters a registered set only by a call the
\* program makes (at_fd), never by a step of the driver.
C14_FdOneShot ==
    [][ /\ (pc = "fds" /\ pc' # "fds" /\ turn.nfds >= 0) =>
              /\ \A fd \in Fds :
                    /\ (fd < drv._nfds /\ fd \in turn.rfds) =>
                          fd \notin drv'._readfds /\ ~armed(St, drv._fd[fd * 2])'
                    /\ (fd < drv._nfds /\ fd \in turn.wfds) =>
                          fd \notin drv'._writefds /\ ~armed(St, drv._fd[fd * 2 + 1])'
              /\ \A e \in Events :
                    (ev[e]._r # 0 /\ ev'[e]._r = 0) =>
                        \E fd \in Fds :
                            \/ fd \in turn.rfds /\ drv._fd[fd * 2] = e
                            \/ fd \in turn.wfds /\ drv._fd[fd * 2 + 1] = e
        /\ (pc = "fds" /\ pc' # "fds" /\ turn.nfds < 0) => ev' = ev
        /\ (drv'._readfds \ drv._readfds # {} \/ drv'._writefds \ drv._writefds # {}) =>
              InUserCode /\ pc' = pc
        /\ (pc = "select" =>
               /\ turn.rfds \cap Fds \subseteq drv._readfds
               /\ turn.wfds \subseteq drv._writefds)'
      ]_vars

\* The descriptor phase has just triggered the read event of descriptor 0:
\* the event is empty and 0 is out of the registered read set.
C14_Witness ==
    /\ pc = "timers"
    /\ fired # << >> /\ fired[Len(fired)] = "fd"
    /\ 0 \in turn.rfds
    /\ 0 \notin drv._readfds
    /\ drv._fdcap > 0 /\ drv._fd[0] # 0 /\ ~armed(St, drv._fd[0])

\* A step in which signal g was delivered to tame_signal_handler (the
\* handler writes a byte to the pipe), and one in which g's default action
\* was taken.
HandlerRan(g) ==
    /\ os.sa_handler[g] = "tame_signal_handler"
    /\ os'.pipe_bytes = os.pipe_bytes + 1
    /\ sig'.sig_active[g] = 1
DefaultTaken(g) == ~os.default_taken[g] /\ os'.default_taken[g]

InDispatch(g) ==
    \/ sig.sig_active[g] # 0
    \/ pc = "sigdrain" /\ g \in turn.sigs_unblock

\* C16: from the delivery of signal g to the handler until the turn that
\* dispatches it has triggered g's event and run the rendezvous unblocked by
\* it, g is not delivered again, neither to the handler nor to the default
\* action; the driver's SIG_UNBLOCK comes only when that is done.
C16_NoDeliveryBeforeRearm ==
    [][ /\ \A g \in Signals :
              InDispatch(g) => ~(HandlerRan(g) \/ DefaultTaken(g))
        /\ (pc = "sigdrain" /\ pc' # "sigdrain") =>
              /\ unblocked = 0 /\ NoRunning
              /\ \A g \in turn.sigs_unblock : sig.sig_active[g] = 0
      ]_vars

\* C17: when select has failed with an error other than EINTR, once()
\* returns with a fatal condition raised; when it has failed with EINTR,
\* once() returns without one, and no descriptor event was triggered.
C17_SelectErrorSurfaced ==
    [][ /\ (pc = "drain" /\ pc' = "idle" /\ turn.nfds < 0 /\ turn.errno # "EINTR") =>
              fault' # "none"
        /\ (pc = "drain" /\ pc' = "idle" /\ turn.nfds < 0 /\ turn.errno = "EINTR") =>
              fault' = "none"
        /\ (pc = "fds" /\ turn.nfds < 0) => ev' = ev
      ]_vars

Referrers(i) == { w \in Wrappers : fdst.p[w] = i }

\* C20: the close system call is made at most once on a wrapped descriptor;
\* it has been made exactly when fd::close() was called on it or no wrapper
\* refers to it any more; the object's count is the number of wrappers that
\* refer to it, and it is freed when that is zero and no operation holds it.
C20_ClosedWithLastWrapper ==
    \A i \in Imps :
        fdst.imp[i].made =>
            /\ fdst.imp[i].closes <= 1
            /\ (fdst.imp[i].closes = 1) <=> (fdst.imp[i].explicit \/ Referrers(i) = {})
            /\ (fdst.imp[i].fd >= 0) <=> (fdst.imp[i].closes = 0)
            /\ ~fdst.imp[i].deleted => fdst.imp[i]._refcount = Cardinality(Referrers(i))
            /\ fdst.imp[i].deleted <=>
                   (Referrers(i) = {} /\ fdst.imp[i]._weak_refcount = 0)

\* Three wrappers referred to one descriptor; it was closed when the last of
\* them was destroyed, not by fd::close().
C20_Witness ==
    \E i \in Imps :
        /\ fdst.imp[i].made /\ fdst.imp[i].deleted
        /\ fdst.imp[i].closes = 1 /\ ~fdst.imp[i].explicit
        /\ \E j \in Imps : j # i /\ Cardinality(Referrers(j)) = MaxWrappers

\* The calls of q made on fdimp i in direction dir, in q's order.
CallsOn(q, i, dir) ==
    SelectSeq(q, LAMBDA o : fdst.op[o].imp = i /\ fdst.op[o].dir = dir)

IsPrefix(a, b) == Len(a) <= Len(b) /\ SubSeq(b, 1, Len(a)) = a

C21_CloseNotifiersOnce ==
    \A e \in Events :
        LET i == fdst.atc_imp[e]
        IN /\ i = 0 => fdst.atc_calls[e] = 1 /\ ~armed(St, e)
           /\ i > 0 =>
                 /\ fdst.imp[i].closes = 0 => fdst.atc_calls[e] = 0 /\ armed(St, e)
                 /\ fdst.imp[i].closes > 0 => fdst.atc_calls[e] = 1 /\ ~armed(St, e)

\* One notifier was given to at_close on an invalid wrapper and triggered at
\* once; another, registered on an open descriptor, has been triggered when
\* the last wrapper of the descriptor went away, without fd::close().
C21_Witness ==
    \E e1, e2 \in Events :
        /\ fdst.atc_imp[e1] = 0 /\ fdst.atc_calls[e1] = 1
        /\ fdst.atc_imp[e2] > 0 /\ fdst.atc_calls[e2] = 1
        /\ fdst.imp[fdst.atc_imp[e2]].closes = 1 /\ ~fdst.imp[fdst.atc_imp[e2]].explicit

\* The rendezvous whose waiting list event e is found in, walking from
\* waiting_ through _r_next.
ListsOf(e) == { r \in Rendezvous \cup {rhidden} : e \in Range(WaitingList(St, r)) }

\* The back link of every event of r's waiting list addresses the cell that
\* points to it: waiting_ for the head, the predecessor's _r_next otherwise;
\* the list ends, and holds no event twice.
LinksConsistent(r) ==
    LET L == WaitingList(St, r)
    IN /\ Len(L) <= nev
       /\ \A i, j \in DOMAIN L : L[i] = L[j] => i = j
       /\ \A i \in DOMAIN L :
             ev[L[i]]._r_pprev = IF i = 1 THEN WaitingLoc(r) ELSE NextLoc(L[i - 1])

\* C22: an event is armed exactly when its owner pointer is set, exactly
\* when it is in a waiting list; it is then in one list only, its owner's,
\* and every waiting list has consistent forward and back links.
C22_ArmedIffLinked ==
    /\ \A e \in Events :
          /\ armed(St, e) <=> ~empty(St, e)
          /\ ~empty(St, e) <=> ListsOf(e) # {}
          /\ ~empty(St, e) => ListsOf(e) = { ev[e]._r }
    /\ \A r \in Rendezvous \cup {rhidden} : LinksConsistent(r)

\* Three events were armed on one rendezvous and the middle one of the list
\* has been completed: the list is the newest followed by the oldest.
C22_Witness ==
    \E r \in Rendezvous :
        /\ nev = MaxLinked
        /\ WaitingList(St, r) = << 3, 1 >>
        /\ empty(St, 2)

\* Event e sits completed in the ready queue of an explicit rendezvous.
OnReady(e) ==
    \E r \in Rendezvous : e \in Range(WalkEvents(St, rv[r].ready_, MaxLinked + 1))

C24_BlockQueuesReady ==
    [][ \A r \in Rendezvous :
            (rv[r].rtype_ = rexplicit /\ rv[r]._blocked_closure = 0
                /\ rv'[r]._blocked_closure # 0) =>
                IF rv[r].ready_ # 0
                THEN unblocked_ptail' = UnblockedNextLoc(r)
                ELSE rv'[r].unblocked_next_ = unblocked_sentinel
      ]_vars

\* C25: a parked task's resumption tag is the position its twait passed to
\* block for a plain closure; for a debug closure it is the negation of that
\* position as an unsigned value, and the line of the twait is recorded.
C25_TagPlainOrNegated ==
    \A c \in Closures :
        closure[c].st = "parked" =>
            IF c \in DebugClosures
            THEN /\ closure[c].tamer_block_position_ = 2 ^ UnsignedBits - closure[c].asked
                 /\ closure[c].tamer_blocked_line_ = 10 * closure[c].asked
            ELSE closure[c].tamer_block_position_ = closure[c].asked

\* Both tasks are parked: the plain one at its first twait with tag 1, the
\* debug one, resumed once, at its second twait with the negated tag.
C25_Witness ==
    \E c \in Closures \ DebugClosures, d \in DebugClosures :
        /\ closure[c].st = "parked" /\ closure[c].asked = 1
        /\ closure[c].tamer_block_position_ = 1
        /\ closure[d].st = "parked" /\ closure[d].asked = 2
        /\ closure[d].tamer_block_position_ = 2 ^ UnsignedBits - 2

\* C25 as stated: the resumption tag of every parked task, plain or debug,
\* is the position passed to block.
C25_TagIsPosition ==
    \A c \in Closures :
        closure[c].st = "parked" => closure[c].tamer_block_position_ = closure[c].asked

\* C26: in the final rendezvous loop of a turn the unblocked FIFO changes
\* only by the loop running the rendezvous at its head, or by the task run
\* appending rendezvous at its tail; once() returns from the loop only when
\* the FIFO is empty, so every rendezvous appended during the loop has been
\* run by then.
C26_DrainRunsUntilEmpty ==
    [][ pc = "drain" =>
          LET L == UnblockedList(St)
              started == { c \in Closures :
                             closure[c].st = "parked" /\ closure'[c].st = "running" }
          IN /\ pc' \in { "drain", "idle" }
             /\ pc' = "idle" => (L = << >> /\ unblocked' = 0)
             /\ started # {} =>
                   /\ L # << >>
                   /\ started = { rv[Head(L)]._blocked_closure }
                   /\ UnblockedList(St)' = Tail(L)
             /\ started = {} => IsPrefix(L, UnblockedList(St)')
      ]_vars

\* The final loop runs a task whose rendezvous was not in the FIFO when the
\* loop began: a task the loop ran before made it ready.
C26_Witness ==
    /\ pc = "drain"
    /\ \E c \in Closures : Running(c) /\ c \notin Range(turn.drain0)
    /\ turn.drain0 # << >>

\* C29: in every state the driver's heap operations leave (the pops of the
\* head cleanup and of the timer expiry, at_time, and timer_reheapify_from
\* at any position), the array _t[0.._nt) is a min-heap by expiry, no timer
\* expiring before its parent, and every scheduled timer's schedpos is its
\* position in the array.
C29_HeapAndBackIndex ==
    /\ Len(drv._t) = drv._nt
    /\ \A i \in 2..drv._nt : ~timer_gt(drv._t[((i - 2) \div 2) + 1], drv._t[i])
    /\ \A i \in 1..drv._nt : drv._t[i].schedpos = i - 1

\* The head cleanup has popped a cancelled root and left three timers, the
\* second child of the new root expiring before the first.
C29_Witness ==
    /\ pc = "select"
    /\ Len(turn.discarded) > 0
    /\ drv._nt = 3
    /\ drv._t[1].expiry < drv._t[3].expiry
    /\ drv._t[3].expiry < drv._t[2].expiry

\* C28: the timer phase of a turn reads the clock and then removes exactly
\* the scheduled timers that do not expire after the new now, in
\* non-decreasing order of expiry, calling trigger on the event of each; a
\* timer that expires after now stays scheduled as it was and its event is
\* not triggered, unless a removed timer holds the same event; the free
\* list gains one slot for each timer removed.
C28_ExpiredTimersOnly ==
    [][ pc = "timers" =>
          LET T == drv._t
              now1 == drv'.now
              due == { i \in 1..drv._nt : T[i].expiry <= now1 }
              late == (1..drv._nt) \ due
              X == turn'.expired
              fired_events == { X[k].trigger : k \in 1..Len(X) }
          IN /\ turn.expired = << >>
             /\ now1 = os'.clock
             /\ Len(X) = Cardinality(due)
             /\ { X[k].id : k \in 1..Len(X) } = { T[i].id : i \in due }
             /\ \A k \in 1..(Len(X) - 1) : X[k].expiry <= X[k + 1].expiry
             /\ \A k \in 1..Len(X) : ~armed(St', X[k].trigger)
             /\ drv'._nt = Cardinality(late)
             /\ \A i \in late :
                   /\ \E j \in 1..drv'._nt :
                         /\ drv'._t[j].id = T[i].id
                         /\ drv'._t[j].expiry = T[i].expiry
                         /\ drv'._t[j].trigger = T[i].trigger
                   /\ (armed(St, T[i].trigger) /\ T[i].trigger \notin fired_events)
                         => armed(St', T[i].trigger)
             /\ drv'._tfree = drv._tfree + Len(X)
      ]_vars

\* The timer phase has removed two timers, the earlier first, the event of
\* one of them armed until then, and has left a timer that expires later.
C28_Witness ==
    /\ pc = "drain"
    /\ Len(turn.expired) = 2
    /\ turn.expired[1].expiry < turn.expired[2].expiry
    /\ \E k \in 1..2 : turn.expired[k].armed
    /\ drv._nt > 0
    /\ drv._t[1].expiry > drv.now

\* C30: when once() reaches select the timer heap is empty or the event of
\* its root is armed, so a positive wait budget comes from an armed timer;
\* the timers the head cleanup removed all had an empty event, the cleanup
\* changes no event, rendezvous or task, the timers it leaves are the other
\* timers, and the free list gains one slot for each timer removed.
C30_HeadCleanup ==
    [][ (pc = "idle" /\ pc' = "select") =>
          LET D == turn'.discarded
              gone == { D[k].id : k \in 1..Len(D) }
          IN /\ turn.discarded = << >>
             /\ drv'._nt = 0 \/ armed(St', drv'._t[1].trigger)
             /\ turn'.to > 0 => (drv'._nt > 0 /\ armed(St', drv'._t[1].trigger))
             /\ \A k \in 1..Len(D) : ~D[k].armed
             /\ \A e \in 1..nev : armed(St', e) = armed(St, e)
             /\ rv' = rv /\ unblocked' = unblocked /\ closure' = closure
             /\ Cardinality(gone) = Len(D)
             /\ { drv'._t[i].id : i \in 1..drv'._nt }
                   = { drv._t[i].id : i \in 1..drv._nt } \ gone
             /\ drv'._nt = drv._nt - Len(D)
             /\ drv'._tfree = drv._tfree + Len(D)
      ]_vars

\* once() is at select with a positive budget after discarding two cancelled
\* timers; the root is armed and a cancelled timer is left below it.
C30_Witness ==
    /\ pc = "select"
    /\ Len(turn.discarded) = 2
    /\ turn.to > 0
    /\ drv._nt > 1
    /\ armed(St, drv._t[1].trigger)
    /\ \E i \in 2..drv._nt : ~armed(St, drv._t[i].trigger)

\* C27: the wait budget once() hands to select is zero if an asap event is
\* registered, or the root of the heap as the head cleanup left it does not
\* expire after the cached now, or the handler has noted a signal; if none
\* of these, it is unbounded (-1 here) when no timer is scheduled, and
\* otherwise the root's expiry minus the cached now, which is positive.
\* once() reads the clock in its timer phase only, and select leaves the
\* budget as it was given.
C27_WaitBudget ==
    [][ /\ (pc = "idle" /\ pc' = "select") =>
              LET nt == drv'._nt
                  root == drv'._t[1]
                  zero == \/ Len(drv._asap) > 0
                          \/ (nt > 0 /\ root.expiry <= drv.now)
                          \/ sig.sig_any_active # 0
              IN /\ drv'.now = drv.now
                 /\ drv'._asap = drv._asap
                 /\ zero => turn'.to = 0
                 /\ (~zero /\ nt = 0) => turn'.to = 0 - 1
                 /\ (~zero /\ nt > 0) =>
                       (turn'.to = root.expiry - drv.now /\ turn'.to > 0)
        /\ pc = "select" => turn'.to = turn.to
      ]_vars

\* once() is at select with a positive budget, the time left until a root
\* that the head cleanup uncovered, no asap event and no signal waiting.
C27_Witness ==
    /\ pc = "select"
    /\ turn.to > 0
    /\ Len(turn.discarded) > 0
    /\ turn.to = drv._t[1].expiry - drv.now
    /\ Len(drv._asap) = 0
    /\ sig.sig_any_active = 0

\* C31: whenever once() is at select and the signal pipe exists, the read
\* end of the pipe is in the read set given to select and the descriptor
\* count given to select is greater than the pipe's read descriptor.
C31_PipeWatched ==
    (pc = "select" /\ sig.sig_pipe >= 0) =>
        (sig.sig_pipe \in turn.rfds /\ turn.nfds > sig.sig_pipe)

\* C32: a signal whose handler has run is dispatched: from every state in
\* which the handler has noted signal g, once() reaches a state in which
\* the note is cleared, which only the dispatch loop does, triggering the
\* signal's event.
C32_NoDeliveryLost ==
    \A g \in Signals : (sig.sig_active[g] # 0) ~> (sig.sig_active[g] = 0)

\* C33: for every descriptor and direction, the descriptor is in the
\* registered read (write) set if and only if the event stored in slot
\* fd*2 (fd*2+1) is armed.
C33_BitsMirrorArmed ==
    \A fd \in Fds :
        /\ fd \in drv._readfds <=>
               (fd * 2 \in DOMAIN drv._fd /\ armed(St, drv._fd[fd * 2]))
        /\ fd \in drv._writefds <=>
               (fd * 2 + 1 \in DOMAIN drv._fd /\ armed(St, drv._fd[fd * 2 + 1]))

\* C34: when once() calls select, every slot of the descriptor table that
\* holds an armed event belongs to a descriptor below _nfds, and _nfds is 0
\* or the read or the write event of descriptor _nfds - 1 is armed.
C34_NfdsCoversArmed ==
    pc = "select" =>
        /\ \A i \in DOMAIN drv._fd : armed(St, drv._fd[i]) => (i \div 2) < drv._nfds
        /\ \/ drv._nfds = 0
           \/ armed(St, drv._fd[drv._nfds * 2 - 2])
           \/ armed(St, drv._fd[drv._nfds * 2 - 1])

\* once() is at select with descriptor 0 armed and _nfds trimmed to 1 past
\* descriptor 2, whose read slot holds a completed event.
C34_Witness ==
    /\ pc = "select"
    /\ drv._nfds = 1
    /\ drv._fd[2 * MaxFd] # 0
    /\ armed(St, drv._fd[0]) \/ armed(St, drv._fd[1])

\* The identifiers of the armed events of rendezvous r in the asap array q,
\* from the last registered to the first, each event once.
RECURSIVE AsapCompletions(_, _, _)
AsapCompletions(q, r, done) ==
    IF q = << >> THEN << >>
    ELSE LET e == q[Len(q)]
             rest == SubSeq(q, 1, Len(q) - 1)
         IN IF ev[e]._r = r /\ e \notin done
            THEN << ev[e]._rid >> \o AsapCompletions(rest, r, done \cup {e})
            ELSE AsapCompletions(rest, r, done)

\* C35: the asap phase completes the armed events of the asap array from
\* the last registered to the first: the ready queue of every explicit
\* rendezvous gains the identifiers of its events in the array in that
\* order, and the array ends empty.
C35_AsapLifo ==
    [][ (pc = "asap" /\ pc' # "asap") =>
          /\ drv'._asap = << >>
          /\ \A r \in Rendezvous :
                rv[r].rtype_ = rexplicit =>
                    ready_order'[r] = ready_order[r] \o AsapCompletions(drv._asap, r, {})
      ]_vars

\* The asap phase has just completed two events of the explicit rendezvous:
\* its ready queue holds the event registered second before the event
\* registered first.
C35_Witness ==
    /\ pc = "fds"
    /\ Len(turn.asap0) = 2
    /\ turn.asap0[1] # turn.asap0[2]
    /\ ready_order[2] = << ev[turn.asap0[2]]._rid, ev[turn.asap0[1]]._rid >>

\* C36: the loop that reads the signal pipe empty ends: whenever once() has
\* reached the loop, it reaches the asap phase.
C36_PipeReadEnds ==
    (pc = "sigread") ~> (pc = "asap")

\* C37: an fdimp is deleted at most once, only when its strong and its weak
\* count are both zero, and no member of it is read after it was deleted.
C37_DeletedOnce ==
    \A i \in Imps :
        /\ fdst.imp[i].deletes <= 1
        /\ ~fdst.imp[i].stale
        /\ fdst.imp[i].deleted =>
               (fdst.imp[i]._refcount = 0 /\ fdst.imp[i]._weak_refcount = 0)

\* C38: at_fd returns for every descriptor, writes a slot of the table, and
\* leaves the capacity at 0 (no table yet) or 16 times a power of two.
C38_ExpandFdsInBounds ==
    /\ fault = "none"
    /\ drv._fdcap \in {0} \cup { 16 * 2 ^ k : k \in 0..IntBits }
    /\ DOMAIN drv._fd = 0..(drv._fdcap - 1)

====
